---- MODULE Spec2Model ----
(***************************************************************************)
(* The programs of the Go tutorial, as one state machine.                  *)
(*                                                                         *)
(*   prog = "taskqueue"   TaskQueue (Submit / Run / Wait),                 *)
(*                        tutorial/09_reflect.go                           *)
(*   prog = "workerpool"  worker / demonstrateWorkerPool, unnamed/part_000 *)
(*   prog = "testchannel" TestChannel / SendData / RecvData,               *)
(*                        c_02/channel_test.go                             *)
(*   prog = "graceful"    workerWithQuit / demonstrateGracefulShutdown,    *)
(*                        unnamed/part_000                                 *)
(*   prog = "quitworker"  workerWithQuit with a caller that may send quit  *)
(*                        at any time                                      *)
(*                                                                         *)
(*   prog = "queue"       Queue[T] Push / Pop, c_01/func.go                *)
(*   prog = "accum"       accumulatorMaker closures, tutorial/02_functions *)
(*   prog = "filter"      filter closure, tutorial/02_functions.go         *)
(*   prog = "mutex"       Counter with sync.Mutex, tutorial/09_reflect.go  *)
(*   prog = "atomic"      atomic.AddInt64 counter, tutorial/09_reflect.go  *)
(*   prog = "once"        GetInstance with sync.Once,                      *)
(*                        tutorial/09_reflect.go                           *)
(*   prog = "processitems"  processItems with a semaphore,                 *)
(*                        unnamed/part_003                                 *)
(*   prog = "process"     process(ctx) with cancellation,                  *)
(*                        unnamed/part_002                                 *)
(*   prog = "memo"        memFunc closure, tutorial/02_functions.go        *)
(*   prog = "divide"      Divide, c_01/func.go                             *)
(*   prog = "tqlock"      TaskQueue Submit against Run's snapshot,         *)
(*                        statement by statement                           *)
(*   prog = "fanout"      gen / doWork / fanIn, unnamed/part_000           *)
(*   prog = "pipeline"    gen / sq / filterEven, unnamed/part_000          *)
(*   prog = "router"      Router / SendChanData, c_02/select.go            *)
(*   prog = "retry"       withRetry, c_03/tutorial/07_error_handling.go    *)
(*   prog = "bank"        BankAccount, tutorial/03_struct_method.go        *)
(*                                                                         *)
(* The programs are separate executables; Init chooses which one runs.     *)
(***************************************************************************)
EXTENDS Integers, Sequences, FiniteSets

VARIABLES
    prog,          \* which program is running
    \* ---- TaskQueue (tutorial/09_reflect.go) ----
    qtasks,        \* q.tasks
    qclosed,       \* q.closed
    doneClosed,    \* q.done has been closed
    subN,          \* per submitter: number of Submit calls made
    subRet,        \* per submitter: value returned by its last Submit
    acceptLog,     \* tasks for which Submit returned true, in lock order
    runPc,         \* position of the goroutine calling Run
    runs,          \* number of Run calls started
    workerCount,   \* argument of the current Run
    snap,          \* Run's local slice `tasks`
    di,            \* index of the next element of `tasks` to send
    taskChClosed,  \* taskCh has been closed
    wpc,           \* per worker goroutine of Run: its position
    inExec,        \* pairs <<worker, task>>: task() called and not returned
    wg,            \* Run's WaitGroup counter
    startLog,      \* tasks in the order "Worker %d ..." was printed for them
    finished,      \* tasks whose task() call has returned
    panicked,      \* "none", or what brought the process down
    waitPc,        \* position of the goroutine calling Wait
    \* ---- worker pool (unnamed/part_000) ----
    pmainPc, pj, pjobs, pjobsClosed, presults, presClosed,
    pwpc, pInProg, pwg, pcloserPc, pcollected, ppanicked,
    \* ---- TestChannel (c_02/channel_test.go) ----
    tcMainPc, tcSpc, tcI, tcWg, tcClosed, tcRpc, tcData, tcLog, tcPanicked,
    \* ---- graceful shutdown (unnamed/part_000) ----
    gsMainPc, gsI, gsWpc, gsVal, gsReceived, gsProcessed,
    \* ---- Queue[T] (c_01/func.go) ----
    quElems,       \* obj.elements
    quPushLog,     \* every element pushed, in call order
    quPopLog,      \* every element a Pop returned with true, in call order
    quLast,        \* the last Pop: what it returned, and its sizeElements
    \* ---- accumulator closures (tutorial/02_functions.go) ----
    acPc,          \* "make" before accumulatorMaker is called, then "ready"
    acInit,        \* initVal
    acAddVal,      \* addVal, captured by addFunc
    acSubVal,      \* subVal, captured by subFunc
    acAdded,       \* sum of the arguments of the addFunc calls
    acSubbed,      \* sum of the arguments of the subFunc calls
    acLast,        \* value returned by the last call
    acCalls,       \* number of calls made
    \* ---- filter (tutorial/02_functions.go) ----
    fiPc,          \* "call" before filter is called, then "done"
    fiArr,         \* arr
    fiPred,        \* filterFunc, as the set of values it is true of
    fiOut,         \* the slice filter returned
    \* ---- Counter / atomic counter (tutorial/09_reflect.go) ----
    cnMainPc,      \* demonstrateMutex / demonstrateAtomic: "spawn", "wait", "get", "done"
    cnI,           \* the loop variable i: goroutines started
    cnWg,          \* wg's counter
    cnMu,          \* c.mu: 0 when free, else the goroutine holding it
    cnValue,       \* c.value / counter
    cnPc,          \* goroutine -> "idle", "lock", "load", "store", "unlock", "add", "wgdone", "done"
    cnTmp,         \* goroutine -> the value it read for c.value++
    cnGot,         \* what Get / LoadInt64 returned to main
    \* ---- GetInstance (tutorial/09_reflect.go) ----
    onMainPc,      \* demonstrateOnce: "spawn", "wait", "done"
    onI,           \* the loop variable i: goroutines started
    onWg,          \* wg's counter
    onMu,          \* once's mutex: 0 when free, else the goroutine holding it
    onDone,        \* once's done flag
    onInstance,    \* instance: 0 is nil, k the k-th Singleton constructed
    onCreated,     \* Singletons constructed so far
    onPc,          \* goroutine -> "idle", "do", "slow", "f", "setdone", "unlock", "ret", "wgdone", "done"
    onGot,         \* goroutine -> what GetInstance returned to it
    \* ---- processItems (unnamed/part_003) ----
    psMainPc,      \* processItems: "call", "spawn", "gocloser", "range", "returned"
    psN,           \* len(items)
    psI,           \* goroutines started by the loop
    psWg,          \* wg's counter
    psSem,         \* number of elements in sem
    psPc,          \* item -> "idle", "acquire", "process", "senderr", "release", "wgdone", "done"
    psErrChan,     \* errChan's buffer: the items whose error was sent
    psErrClosed,   \* errChan is closed
    psCloserPc,    \* the closer goroutine: "idle", "wait", "done"
    psRet,         \* what processItems returned: 0 is nil, else the item that failed
    \* ---- process(ctx), the GOOD pattern (unnamed/part_002) ----
    pgCallerPc,    \* call -> "idle", "select", "returned"
    pgGPc,         \* call -> its goroutine: "idle", "compute", "select", "done"
    pgCh,          \* call -> the buffer of its ch
    pgVal,         \* call -> what expensiveOperation() returned
    pgCtxDone,     \* ctx.Done() is closed
    pgRet,         \* call -> "none", "nil" or "ctxErr"
    \* ---- memFunc (tutorial/02_functions.go) ----
    mmPc,          \* "make" before memFunc is called, then "ready"
    mmF,           \* oneFunc, the wrapped function
    mmCache,       \* cacheMap
    mmInvoked,     \* key -> number of times oneFunc was invoked with it
    mmAsked,       \* key -> number of calls of the memoized function with it
    mmCalls,       \* calls of the memoized function so far
    mmLastKey,     \* the key of the last call
    mmLastRet,     \* what the last call returned
    \* ---- Divide (c_01/func.go) ----
    dvPc,          \* "call" before Divide is called, then "done"
    dvA,           \* a
    dvB,           \* b
    dvRes,         \* the float32 Divide returned
    dvErr,         \* the error Divide returned: its message, or "nil"
    \* ---- TaskQueue's q.mu, statement by statement (tutorial/09_reflect.go) ----
    lkMu,          \* q.mu: "free", or who holds it (a submitter or "run")
    lkTasks,       \* q.tasks
    lkPc,          \* submitter -> "idle", "read", "write", "rettrue", "retfalse"
    lkTmp,         \* submitter -> the q.tasks it read for append
    lkN,           \* submitter -> number of Submit calls begun
    lkAccepted,    \* tasks for which Submit has returned true
    lkRunPc,       \* Run: "idle", "read", "clear", "unlock"
    lkRuns,        \* number of Run calls that took the lock
    lkSnap,        \* Run's local tasks
    lkDispatched,  \* the tasks of all snapshots so far, in order
    \* ---- fan-out / fan-in (unnamed/part_000) ----
    foMainPc,      \* demonstrateFanOutFanIn: "start", "range", "done"
    foGenI,        \* gen: index of the next value to send
    foInClosed,    \* gen's channel is closed
    foWPc,         \* worker -> "none", "range", "send", "done"
    foWVal,        \* worker -> the result it is sending (0 when none)
    foCClosed,     \* worker -> its out channel is closed
    foFPc,         \* fanIn goroutine -> "none", "range", "send", "done"
    foFVal,        \* fanIn goroutine -> the value it is sending (0 when none)
    foWg,          \* fanIn's wg counter
    foOutClosed,   \* fanIn's out is closed
    foConsumed,    \* results the consumer loop received, in order
    foWorkLog,     \* <<worker, value>> for every value a worker received
    foPanicked,    \* a send on closed out has panicked
    \* ---- pipeline gen -> sq -> filterEven (unnamed/part_000) ----
    plMainPc,      \* demonstratePipeline: "start", "range", "done"
    plNums,        \* gen's arguments
    plGenI,        \* gen: index of the next value to send
    plGenClosed,   \* gen's out is closed (gen's goroutine has ended)
    plSqPc,        \* sq's goroutine: "none", "range", "send", "done"
    plSqVal,       \* the square sq is sending (0 when none)
    plSqClosed,    \* sq's out is closed
    plFePc,        \* filterEven's goroutine: "none", "range", "send", "done"
    plFeVal,       \* the value filterEven is sending (0 when none)
    plOutClosed,   \* filterEven's out is closed
    plConsumed,    \* results the consumer loop received, in order
    \* ---- Router / SendChanData (c_02/select.go) ----
    rtPc,          \* Router: "none" before it is started, "select", "returned"
    rtPayload,     \* channel -> the payload Router set last (0: the initial one)
    rtReceived,    \* <<channel, data>> for every value Router received
    rtSpun,        \* Router has received from a closed channel
    rtClosed,      \* channel -> it is closed
    sdPc,          \* the caller: "idle", "select" (inside SendChanData), "closing", "done"
    sdCh,          \* channel argument of the current SendChanData
    sdData,        \* data argument of the current SendChanData
    sdN,           \* calls of SendChanData so far
    sdLog,         \* one record per call of SendChanData that has returned
    \* ---- withRetry (c_03/tutorial/07_error_handling.go) ----
    wrPc,          \* "call" before withRetry is called, "loop", "returned"
    wrMax,         \* maxRetries
    wrI,           \* the loop variable i
    wrLastErr,     \* lastErr
    wrCalls,       \* what each call of fn returned, in order
    wrRet,         \* what withRetry returned: kind "nil", "err" or "wrapped", and the error
    \* ---- BankAccount (tutorial/03_struct_method.go) ----
    baPc,          \* "new" before NewBankAccount is called, then "open"
    baBalance,     \* ba.Balance
    baClosed,      \* ba.isClosed
    baOps,         \* calls of Deposit, Withdraw and Close so far
    baLast         \* the last call, its error and the account before it

tqVars == <<qtasks, qclosed, doneClosed, subN, subRet, acceptLog, runPc, runs,
            workerCount, snap, di, taskChClosed, wpc, inExec, wg, startLog,
            finished, panicked, waitPc>>

poolVars == <<pmainPc, pj, pjobs, pjobsClosed, presults, presClosed,
              pwpc, pInProg, pwg, pcloserPc, pcollected, ppanicked>>

tcVars == <<tcMainPc, tcSpc, tcI, tcWg, tcClosed, tcRpc, tcData, tcLog,
            tcPanicked>>

gsVars == <<gsMainPc, gsI, gsWpc, gsVal, gsReceived, gsProcessed>>

quVars == <<quElems, quPushLog, quPopLog, quLast>>

acVars == <<acPc, acInit, acAddVal, acSubVal, acAdded, acSubbed, acLast, acCalls>>

fiVars == <<fiPc, fiArr, fiPred, fiOut>>

cnVars == <<cnMainPc, cnI, cnWg, cnMu, cnValue, cnPc, cnTmp, cnGot>>

onVars == <<onMainPc, onI, onWg, onMu, onDone, onInstance, onCreated, onPc, onGot>>

psVars == <<psMainPc, psN, psI, psWg, psSem, psPc, psErrChan, psErrClosed, psCloserPc, psRet>>

pgVars == <<pgCallerPc, pgGPc, pgCh, pgVal, pgCtxDone, pgRet>>

mmVars == <<mmPc, mmF, mmCache, mmInvoked, mmAsked, mmCalls, mmLastKey, mmLastRet>>

dvVars == <<dvPc, dvA, dvB, dvRes, dvErr>>

lkVars == <<lkMu, lkTasks, lkPc, lkTmp, lkN, lkAccepted, lkRunPc, lkRuns, lkSnap, lkDispatched>>

foVars == <<foMainPc, foGenI, foInClosed, foWPc, foWVal, foCClosed, foFPc, foFVal, foWg, foOutClosed, foConsumed, foWorkLog, foPanicked>>

plVars == <<plMainPc, plNums, plGenI, plGenClosed, plSqPc, plSqVal, plSqClosed, plFePc, plFeVal, plOutClosed, plConsumed>>

rtVars == <<rtPc, rtPayload, rtReceived, rtSpun, rtClosed, sdPc, sdCh, sdData, sdN, sdLog>>

wrVars == <<wrPc, wrMax, wrI, wrLastErr, wrCalls, wrRet>>

baVars == <<baPc, baBalance, baClosed, baOps, baLast>>

\* The variables of the programs below the four channel demonstrations.
auxVars == <<quVars, acVars, fiVars, cnVars, onVars, psVars, pgVars, mmVars,
             dvVars, lkVars, foVars, plVars, rtVars, wrVars, baVars>>

vars == <<prog, tqVars, poolVars, tcVars, gsVars, auxVars>>

\* Everything a step of Queue[T] leaves alone.
notQuVars == <<prog, tqVars, poolVars, tcVars, gsVars, acVars, fiVars, cnVars,
               onVars, psVars, pgVars, mmVars, dvVars, lkVars, foVars, plVars,
               rtVars, wrVars, baVars>>

\* Everything a step of the accumulator leaves alone.
notAcVars == <<prog, tqVars, poolVars, tcVars, gsVars, quVars, fiVars, cnVars,
               onVars, psVars, pgVars, mmVars, dvVars, lkVars, foVars, plVars,
               rtVars, wrVars, baVars>>

\* Everything a step of filter leaves alone.
notFiVars == <<prog, tqVars, poolVars, tcVars, gsVars, quVars, acVars, cnVars,
               onVars, psVars, pgVars, mmVars, dvVars, lkVars, foVars, plVars,
               rtVars, wrVars, baVars>>

\* Everything a step of the counters leaves alone.
notCnVars == <<prog, tqVars, poolVars, tcVars, gsVars, quVars, acVars, fiVars,
               onVars, psVars, pgVars, mmVars, dvVars, lkVars, foVars, plVars,
               rtVars, wrVars, baVars>>

\* Everything a step of GetInstance leaves alone.
notOnVars == <<prog, tqVars, poolVars, tcVars, gsVars, quVars, acVars, fiVars,
               cnVars, psVars, pgVars, mmVars, dvVars, lkVars, foVars, plVars,
               rtVars, wrVars, baVars>>

\* Everything a step of processItems leaves alone.
notPsVars == <<prog, tqVars, poolVars, tcVars, gsVars, quVars, acVars, fiVars,
               cnVars, onVars, pgVars, mmVars, dvVars, lkVars, foVars, plVars,
               rtVars, wrVars, baVars>>

\* Everything a step of process(ctx) leaves alone.
notPgVars == <<prog, tqVars, poolVars, tcVars, gsVars, quVars, acVars, fiVars,
               cnVars, onVars, psVars, mmVars, dvVars, lkVars, foVars, plVars,
               rtVars, wrVars, baVars>>

\* Everything a step of memFunc leaves alone.
notMmVars == <<prog, tqVars, poolVars, tcVars, gsVars, quVars, acVars, fiVars,
               cnVars, onVars, psVars, pgVars, dvVars, lkVars, foVars, plVars,
               rtVars, wrVars, baVars>>

\* Everything a step of Divide leaves alone.
notDvVars == <<prog, tqVars, poolVars, tcVars, gsVars, quVars, acVars, fiVars,
               cnVars, onVars, psVars, pgVars, mmVars, lkVars, foVars, plVars,
               rtVars, wrVars, baVars>>

\* Everything a step of Submit and Run under q.mu leaves alone.
notLkVars == <<prog, tqVars, poolVars, tcVars, gsVars, quVars, acVars, fiVars,
               cnVars, onVars, psVars, pgVars, mmVars, dvVars, foVars, plVars,
               rtVars, wrVars, baVars>>

\* Everything a step of fan-out / fan-in leaves alone.
notFoVars == <<prog, tqVars, poolVars, tcVars, gsVars, quVars, acVars, fiVars,
               cnVars, onVars, psVars, pgVars, mmVars, dvVars, lkVars, plVars,
               rtVars, wrVars, baVars>>

\* Everything a step of the pipeline leaves alone.
notPlVars == <<prog, tqVars, poolVars, tcVars, gsVars, quVars, acVars, fiVars,
               cnVars, onVars, psVars, pgVars, mmVars, dvVars, lkVars, foVars,
               rtVars, wrVars, baVars>>

\* Everything a step of Router and its caller leaves alone.
notRtVars == <<prog, tqVars, poolVars, tcVars, gsVars, quVars, acVars, fiVars,
               cnVars, onVars, psVars, pgVars, mmVars, dvVars, lkVars, foVars,
               plVars, wrVars, baVars>>

\* Everything a step of withRetry leaves alone.
notWrVars == <<prog, tqVars, poolVars, tcVars, gsVars, quVars, acVars, fiVars,
               cnVars, onVars, psVars, pgVars, mmVars, dvVars, lkVars, foVars,
               plVars, rtVars, baVars>>

\* Everything a step of BankAccount leaves alone.
notBaVars == <<prog, tqVars, poolVars, tcVars, gsVars, quVars, acVars, fiVars,
               cnVars, onVars, psVars, pgVars, mmVars, dvVars, lkVars, foVars,
               plVars, rtVars, wrVars>>

\* ------------------------------------------------------------------ bounds

\* Submit calls made by each submitting goroutine.
MaxPerSubmitter == 2

\* Largest workerCount passed to Run (0 is included).
MaxWorkers == 2

\* Number of Run calls made on one queue.
MaxRuns == 2

\* Goroutines calling Submit concurrently.
Submitters == {"A", "B"}

Workers == 1..MaxWorkers

\* A task is identified by its submitter and its position among that
\* submitter's Submit calls.
Tasks == Submitters \X (1..MaxPerSubmitter)

\* ------------------------------------------------------------------ helpers

Range(s) == {s[i] : i \in 1..Len(s)}

Count(x, s) == Cardinality({i \in 1..Len(s) : s[i] = x})

\* The subsequence of s made of the elements satisfying a membership test.
RECURSIVE SelectIn(_, _)
SelectIn(s, S) ==
    IF s = <<>> THEN <<>>
    ELSE IF Head(s) \in S THEN <<Head(s)>> \o SelectIn(Tail(s), S)
    ELSE SelectIn(Tail(s), S)

\* ------------------------------------------------------------------ TaskQueue

TQAlive == prog = "taskqueue" /\ panicked = "none"

EnqueueFront(q, t) == <<t>> \o q

\* q.tasks = append(q.tasks, task)
Enqueue(q, t) == Append(q, t)

\* func (q *TaskQueue) Submit(task func()) bool, under q.mu
Submit(s) ==
    /\ TQAlive
    /\ subN[s] < MaxPerSubmitter
    /\ LET t == <<s, subN[s] + 1>> IN
       IF qclosed
       THEN /\ subRet' = [subRet EXCEPT ![s] = "false"]
            /\ UNCHANGED <<qtasks, acceptLog>>
       ELSE /\ qtasks' = Enqueue(qtasks, t)
            /\ acceptLog' = Append(acceptLog, t)
            /\ subRet' = [subRet EXCEPT ![s] = "true"]
    /\ subN' = [subN EXCEPT ![s] = @ + 1]
    /\ UNCHANGED <<prog, qclosed, doneClosed, runPc, runs, workerCount, snap,
                   di, taskChClosed, wpc, inExec, wg, startLog, finished,
                   panicked, waitPc, poolVars, tcVars, gsVars, auxVars>>

\* Run: taskCh := make(chan func()); the loop starting workerCount goroutines
RunStart(n) ==
    /\ TQAlive
    /\ runPc = "idle"
    /\ runs < MaxRuns
    /\ runs' = runs + 1
    /\ workerCount' = n
    /\ taskChClosed' = FALSE
    /\ wpc' = [w \in Workers |-> IF w <= n THEN "range" ELSE "none"]
    /\ wg' = n
    /\ runPc' = "snapshot"
    /\ UNCHANGED <<prog, qtasks, qclosed, doneClosed, subN, subRet, acceptLog,
                   snap, di, inExec, startLog, finished, panicked, waitPc,
                   poolVars, tcVars, gsVars, auxVars>>

\* Run: q.mu.Lock(); tasks := q.tasks; q.tasks = nil; q.mu.Unlock()
RunSnapshot ==
    /\ TQAlive
    /\ runPc = "snapshot"
    /\ snap' = qtasks
    /\ qtasks' = <<>>
    /\ di' = 1
    /\ runPc' = "dispatch"
    /\ UNCHANGED <<prog, qclosed, doneClosed, subN, subRet, acceptLog, runs,
                   workerCount, taskChClosed, wpc, inExec, wg, startLog,
                   finished, panicked, waitPc, poolVars, tcVars, gsVars, auxVars>>

NextTaskReversed(s, i) == s[Len(s) + 1 - i]

\* Run: for _, task := range tasks -- the i-th task sent on taskCh
NextTask(s, i) == s[i]

WorkerPcAsync == "range"

\* Worker: task() is called in the worker's own goroutine, which is inside
\* the call until it returns.
WorkerPcAfterRecv == "call"

\* Run: taskCh <- task, meeting `for task := range taskCh` of worker w, which
\* prints "Worker %d ..." and calls task().  taskCh is unbuffered: the send
\* completes only together with a receive.
RunDispatch(w) ==
    /\ TQAlive
    /\ runPc = "dispatch"
    /\ di <= Len(snap)
    /\ wpc[w] = "range"
    /\ LET t == NextTask(snap, di) IN
       /\ inExec' = inExec \cup {<<w, t>>}
       /\ startLog' = Append(startLog, t)
    /\ wpc' = [wpc EXCEPT ![w] = WorkerPcAfterRecv]
    /\ di' = di + 1
    /\ UNCHANGED <<prog, qtasks, qclosed, doneClosed, subN, subRet, acceptLog,
                   runPc, runs, workerCount, snap, taskChClosed, wg, finished,
                   panicked, waitPc, poolVars, tcVars, gsVars, auxVars>>

\* Run: close(taskCh), after the last send
RunCloseCh ==
    /\ TQAlive
    /\ runPc = "dispatch"
    /\ di > Len(snap)
    /\ taskChClosed' = TRUE
    /\ runPc' = "wait"
    /\ UNCHANGED <<prog, qtasks, qclosed, doneClosed, subN, subRet, acceptLog,
                   runs, workerCount, snap, di, wpc, inExec, wg, startLog,
                   finished, panicked, waitPc, poolVars, tcVars, gsVars, auxVars>>

\* Worker: task() returns; the worker goes back to `range taskCh`
TaskReturn(w, t) ==
    /\ TQAlive
    /\ <<w, t>> \in inExec
    /\ inExec' = inExec \ {<<w, t>>}
    /\ finished' = finished \cup {t}
    /\ wpc' = [wpc EXCEPT ![w] = "range"]
    /\ UNCHANGED <<prog, qtasks, qclosed, doneClosed, subN, subRet, acceptLog,
                   runPc, runs, workerCount, snap, di, taskChClosed, wg,
                   startLog, panicked, waitPc, poolVars, tcVars, gsVars, auxVars>>

\* Worker: task() panics.  The worker goroutine has no recover, so the
\* panic unwinds it and the runtime ends the process.
TaskPanic(w, t) ==
    /\ TQAlive
    /\ <<w, t>> \in inExec
    /\ panicked' = "task"
    /\ UNCHANGED <<prog, qtasks, qclosed, doneClosed, subN, subRet, acceptLog,
                   runPc, runs, workerCount, snap, di, taskChClosed, wpc,
                   inExec, wg, startLog, finished, waitPc, poolVars, tcVars,
                   gsVars, auxVars>>

\* Worker: `range taskCh` ends on the closed channel; defer wg.Done()
WorkerExit(w) ==
    /\ TQAlive
    /\ wpc[w] = "range"
    /\ taskChClosed
    /\ wpc' = [wpc EXCEPT ![w] = "exited"]
    /\ wg' = wg - 1
    /\ UNCHANGED <<prog, qtasks, qclosed, doneClosed, subN, subRet, acceptLog,
                   runPc, runs, workerCount, snap, di, taskChClosed, inExec,
                   startLog, finished, panicked, waitPc, poolVars, tcVars,
                   gsVars, auxVars>>

\* Run: wg.Wait()
RunWgWait ==
    /\ TQAlive
    /\ runPc = "wait"
    /\ wg = 0
    /\ runPc' = "closedone"
    /\ UNCHANGED <<prog, qtasks, qclosed, doneClosed, subN, subRet, acceptLog,
                   runs, workerCount, snap, di, taskChClosed, wpc, inExec, wg,
                   startLog, finished, panicked, waitPc, poolVars, tcVars,
                   gsVars, auxVars>>

\* Run: close(q.done) and return.  Closing a closed channel panics.
RunCloseDone ==
    /\ TQAlive
    /\ runPc = "closedone"
    /\ IF doneClosed
       THEN /\ panicked' = "closedone"
            /\ UNCHANGED <<doneClosed, runPc>>
       ELSE /\ doneClosed' = TRUE
            /\ runPc' = "idle"
            /\ UNCHANGED panicked
    /\ UNCHANGED <<prog, qtasks, qclosed, subN, subRet, acceptLog, runs,
                   workerCount, snap, di, taskChClosed, wpc, inExec, wg,
                   startLog, finished, waitPc, poolVars, tcVars, gsVars, auxVars>>

\* A goroutine calls q.Wait() and blocks on <-q.done
WaitCall ==
    /\ TQAlive
    /\ waitPc \in {"idle", "returned"}
    /\ waitPc' = "blocked"
    /\ UNCHANGED <<prog, qtasks, qclosed, doneClosed, subN, subRet, acceptLog,
                   runPc, runs, workerCount, snap, di, taskChClosed, wpc,
                   inExec, wg, startLog, finished, panicked, poolVars, tcVars,
                   gsVars, auxVars>>

\* Wait: <-q.done receives from the closed channel and Wait returns
WaitReturn ==
    /\ TQAlive
    /\ waitPc = "blocked"
    /\ doneClosed
    /\ waitPc' = "returned"
    /\ UNCHANGED <<prog, qtasks, qclosed, doneClosed, subN, subRet, acceptLog,
                   runPc, runs, workerCount, snap, di, taskChClosed, wpc,
                   inExec, wg, startLog, finished, panicked, poolVars, tcVars,
                   gsVars, auxVars>>

\* NewTaskQueue(): tasks empty, closed false, done open
TQInit ==
    /\ qtasks = <<>>
    /\ qclosed = FALSE
    /\ doneClosed = FALSE
    /\ subN = [s \in Submitters |-> 0]
    /\ subRet = [s \in Submitters |-> "none"]
    /\ acceptLog = <<>>
    /\ runPc = "idle"
    /\ runs = 0
    /\ workerCount = 0
    /\ snap = <<>>
    /\ di = 1
    /\ taskChClosed = FALSE
    /\ wpc = [w \in Workers |-> "none"]
    /\ inExec = {}
    /\ wg = 0
    /\ startLog = <<>>
    /\ finished = {}
    /\ panicked = "none"
    /\ waitPc = "idle"

TQNext ==
    \/ \E s \in Submitters : Submit(s)
    \/ \E n \in 0..MaxWorkers : RunStart(n)
    \/ RunSnapshot
    \/ \E w \in Workers : RunDispatch(w)
    \/ RunCloseCh
    \/ \E w \in Workers, t \in Tasks : TaskReturn(w, t)
    \/ \E w \in Workers, t \in Tasks : TaskPanic(w, t)
    \/ \E w \in Workers : WorkerExit(w)
    \/ RunWgWait
    \/ RunCloseDone
    \/ WaitCall
    \/ WaitReturn

\* ------------------------------------------------------------------ worker pool

\* const numJobs = 10 in demonstrateWorkerPool, at the model's size; it is
\* also the capacity of the jobs and results channels.
numJobs == 4

\* const numWorkers = 3 in demonstrateWorkerPool, at the model's size.
numWorkers == 2

PoolWorkers == 1..numWorkers

Jobs == 1..numJobs

PoolAlive == prog = "workerpool" /\ ~ppanicked

\* demonstrateWorkerPool: the loop `wg.Add(1); go worker(w, jobs, results, &wg)`
PoolSpawn ==
    /\ PoolAlive
    /\ pmainPc = "spawn"
    /\ pwpc' = [w \in PoolWorkers |-> "range"]
    /\ pwg' = numWorkers
    /\ pj' = 1
    /\ pmainPc' = "send"
    /\ UNCHANGED <<prog, pjobs, pjobsClosed, presults, presClosed, pInProg,
                   pcloserPc, pcollected, ppanicked, tqVars, tcVars, gsVars, auxVars>>

\* demonstrateWorkerPool: jobs <- j, for j = 1..numJobs (buffered send)
PoolSendJob ==
    /\ PoolAlive
    /\ pmainPc = "send"
    /\ pj <= numJobs
    /\ Len(pjobs) < numJobs
    /\ pjobs' = Append(pjobs, pj)
    /\ pj' = pj + 1
    /\ UNCHANGED <<prog, pmainPc, pjobsClosed, presults, presClosed, pwpc,
                   pInProg, pwg, pcloserPc, pcollected, ppanicked, tqVars, tcVars, gsVars, auxVars>>

\* demonstrateWorkerPool: close(jobs)
PoolCloseJobs ==
    /\ PoolAlive
    /\ pmainPc = "send"
    /\ pj > numJobs
    /\ pjobsClosed' = TRUE
    /\ pmainPc' = "gocloser"
    /\ UNCHANGED <<prog, pj, pjobs, presults, presClosed, pwpc, pInProg, pwg,
                   pcloserPc, pcollected, ppanicked, tqVars, tcVars, gsVars, auxVars>>

\* demonstrateWorkerPool: go func() { wg.Wait(); close(results) }()
PoolGoCloser ==
    /\ PoolAlive
    /\ pmainPc = "gocloser"
    /\ pcloserPc' = "wgwait"
    /\ pmainPc' = "collect"
    /\ UNCHANGED <<prog, pj, pjobs, pjobsClosed, presults, presClosed, pwpc,
                   pInProg, pwg, pcollected, ppanicked, tqVars, tcVars, gsVars, auxVars>>

PoolPcAsync == "range"

\* worker: the body of `for job := range jobs` runs in the worker's goroutine
PoolPcAfterRecv == "work"

\* worker: `for job := range jobs` receives the oldest buffered job
PoolWorkerRecv(w) ==
    /\ PoolAlive
    /\ pwpc[w] = "range"
    /\ pjobs # <<>>
    /\ pInProg' = pInProg \cup {<<w, Head(pjobs)>>}
    /\ pjobs' = Tail(pjobs)
    /\ pwpc' = [pwpc EXCEPT ![w] = PoolPcAfterRecv]
    /\ UNCHANGED <<prog, pmainPc, pj, pjobsClosed, presults, presClosed, pwg,
                   pcloserPc, pcollected, ppanicked, tqVars, tcVars, gsVars, auxVars>>

ResultsCapWorkers == numWorkers

\* demonstrateWorkerPool: results := make(chan int, numJobs)
ResultsCap == numJobs

\* worker: result := job * job; results <- result (buffered send); the
\* iteration ends.  A send on a closed channel panics.
PoolWorkerSend(w, job) ==
    /\ PoolAlive
    /\ <<w, job>> \in pInProg
    /\ presClosed \/ Len(presults) < ResultsCap
    /\ IF presClosed
       THEN /\ ppanicked' = TRUE
            /\ UNCHANGED <<presults, pInProg, pwpc>>
       ELSE /\ presults' = Append(presults, job * job)
            /\ pInProg' = pInProg \ {<<w, job>>}
            /\ pwpc' = [pwpc EXCEPT ![w] = "range"]
            /\ UNCHANGED ppanicked
    /\ UNCHANGED <<prog, pmainPc, pj, pjobs, pjobsClosed, presClosed, pwg,
                   pcloserPc, pcollected, tqVars, tcVars, gsVars, auxVars>>

\* worker: `range jobs` ends (closed and drained); defer wg.Done()
PoolWorkerExit(w) ==
    /\ PoolAlive
    /\ pwpc[w] = "range"
    /\ pjobs = <<>>
    /\ pjobsClosed
    /\ pwpc' = [pwpc EXCEPT ![w] = "exited"]
    /\ pwg' = pwg - 1
    /\ UNCHANGED <<prog, pmainPc, pj, pjobs, pjobsClosed, presults, presClosed,
                   pInProg, pcloserPc, pcollected, ppanicked, tqVars, tcVars, gsVars, auxVars>>

\* A closer that does not wait for the workers.
PoolWgWaitSkipped == TRUE

\* closer goroutine: wg.Wait() returns when the counter is zero
PoolWgWaitReturns == pwg = 0

\* closer goroutine: wg.Wait() returns; close(results)
PoolCloserClose ==
    /\ PoolAlive
    /\ pcloserPc = "wgwait"
    /\ PoolWgWaitReturns
    /\ presClosed' = TRUE
    /\ pcloserPc' = "done"
    /\ UNCHANGED <<prog, pmainPc, pj, pjobs, pjobsClosed, presults, pwpc,
                   pInProg, pwg, pcollected, ppanicked, tqVars, tcVars, gsVars, auxVars>>

\* demonstrateWorkerPool: `for result := range results` receives a result
PoolCollect ==
    /\ PoolAlive
    /\ pmainPc = "collect"
    /\ presults # <<>>
    /\ pcollected' = Append(pcollected, Head(presults))
    /\ presults' = Tail(presults)
    /\ UNCHANGED <<prog, pmainPc, pj, pjobs, pjobsClosed, presClosed, pwpc,
                   pInProg, pwg, pcloserPc, ppanicked, tqVars, tcVars, gsVars, auxVars>>

\* demonstrateWorkerPool: `range results` ends (closed and drained)
PoolCollectEnd ==
    /\ PoolAlive
    /\ pmainPc = "collect"
    /\ presults = <<>>
    /\ presClosed
    /\ pmainPc' = "done"
    /\ UNCHANGED <<prog, pj, pjobs, pjobsClosed, presults, presClosed, pwpc,
                   pInProg, pwg, pcloserPc, pcollected, ppanicked, tqVars, tcVars, gsVars, auxVars>>

\* demonstrateWorkerPool: both channels made, nothing started
PoolInit ==
    /\ pmainPc = "spawn"
    /\ pj = 1
    /\ pjobs = <<>>
    /\ pjobsClosed = FALSE
    /\ presults = <<>>
    /\ presClosed = FALSE
    /\ pwpc = [w \in PoolWorkers |-> "none"]
    /\ pInProg = {}
    /\ pwg = 0
    /\ pcloserPc = "none"
    /\ pcollected = <<>>
    /\ ppanicked = FALSE

PoolNext ==
    \/ PoolSpawn
    \/ PoolSendJob
    \/ PoolCloseJobs
    \/ PoolGoCloser
    \/ \E w \in PoolWorkers : PoolWorkerRecv(w)
    \/ \E w \in PoolWorkers, job \in Jobs : PoolWorkerSend(w, job)
    \/ \E w \in PoolWorkers : PoolWorkerExit(w)
    \/ PoolCloserClose
    \/ PoolCollect
    \/ PoolCollectEnd

\* ------------------------------------------------------------------ TestChannel

\* TestChannel starts SendData twice.
TcSenders == {1, 2}

\* SendData: for i := range 3
tcSends == 3

TcAlive == prog = "testchannel" /\ ~tcPanicked

TcWgAddForgotten(n) == n

\* TestChannel: wg.Add(1), before each `go SendData`
TcWgAdd(n) == n + 1

\* TestChannel: wg.Add(1); go SendData(intChan, wg) -- first, then second
TcGoSend ==
    /\ TcAlive
    /\ tcMainPc \in {"go1", "go2"}
    /\ LET s == IF tcMainPc = "go1" THEN 1 ELSE 2 IN
       tcSpc' = [tcSpc EXCEPT ![s] = "send"]
    /\ tcWg' = TcWgAdd(tcWg)
    /\ tcMainPc' = IF tcMainPc = "go1" THEN "go2" ELSE "gorecv"
    /\ UNCHANGED <<prog, tcI, tcClosed, tcRpc, tcData, tcLog, tcPanicked,
                   tqVars, poolVars, gsVars, auxVars>>

\* TestChannel: go RecvData(intChan)
TcGoRecv ==
    /\ TcAlive
    /\ tcMainPc = "gorecv"
    /\ tcRpc' = "range"
    /\ tcMainPc' = "wait"
    /\ UNCHANGED <<prog, tcSpc, tcI, tcWg, tcClosed, tcData, tcLog, tcPanicked,
                   tqVars, poolVars, gsVars, auxVars>>

\* SendData: ch <- i (then time.Sleep).  intChan is unbuffered: the send
\* completes together with RecvData's receive; a send on a closed channel
\* panics.
TcSend(s) ==
    /\ TcAlive
    /\ tcSpc[s] = "send"
    /\ tcI[s] < tcSends
    /\ tcClosed \/ tcRpc = "range"
    /\ IF tcClosed
       THEN /\ tcPanicked' = TRUE
            /\ UNCHANGED <<tcI, tcRpc, tcData>>
       ELSE /\ tcData' = <<s, tcI[s]>>
            /\ tcRpc' = "print"
            /\ tcI' = [tcI EXCEPT ![s] = @ + 1]
            /\ UNCHANGED tcPanicked
    /\ UNCHANGED <<prog, tcMainPc, tcSpc, tcWg, tcClosed, tcLog, tqVars,
                   poolVars, gsVars, auxVars>>

\* SendData: the loop is over; defer wg.Done()
TcSenderDone(s) ==
    /\ TcAlive
    /\ tcSpc[s] = "send"
    /\ tcI[s] = tcSends
    /\ tcSpc' = [tcSpc EXCEPT ![s] = "done"]
    /\ tcWg' = tcWg - 1
    /\ UNCHANGED <<prog, tcMainPc, tcI, tcClosed, tcRpc, tcData, tcLog,
                   tcPanicked, tqVars, poolVars, gsVars, auxVars>>

\* RecvData: the body of `for data := range ch` prints the value received
TcPrint ==
    /\ TcAlive
    /\ tcRpc = "print"
    /\ tcLog' = Append(tcLog, tcData)
    /\ tcRpc' = "range"
    /\ UNCHANGED <<prog, tcMainPc, tcSpc, tcI, tcWg, tcClosed, tcData,
                   tcPanicked, tqVars, poolVars, gsVars, auxVars>>

\* RecvData: `range ch` ends on the closed channel
TcRecvExit ==
    /\ TcAlive
    /\ tcRpc = "range"
    /\ tcClosed
    /\ tcRpc' = "exited"
    /\ UNCHANGED <<prog, tcMainPc, tcSpc, tcI, tcWg, tcClosed, tcData, tcLog,
                   tcPanicked, tqVars, poolVars, gsVars, auxVars>>

\* TestChannel: wg.Wait() returns
TcWait ==
    /\ TcAlive
    /\ tcMainPc = "wait"
    /\ tcWg = 0
    /\ tcMainPc' = "close"
    /\ UNCHANGED <<prog, tcSpc, tcI, tcWg, tcClosed, tcRpc, tcData, tcLog,
                   tcPanicked, tqVars, poolVars, gsVars, auxVars>>

\* TestChannel returns: defer close(intChan)
TcClose ==
    /\ TcAlive
    /\ tcMainPc = "close"
    /\ tcClosed' = TRUE
    /\ tcMainPc' = "returned"
    /\ UNCHANGED <<prog, tcSpc, tcI, tcWg, tcRpc, tcData, tcLog, tcPanicked,
                   tqVars, poolVars, gsVars, auxVars>>

\* TestChannel: intChan = make(IntChan); wg := &sync.WaitGroup{}
TcInit ==
    /\ tcMainPc = "go1"
    /\ tcSpc = [s \in TcSenders |-> "none"]
    /\ tcI = [s \in TcSenders |-> 0]
    /\ tcWg = 0
    /\ tcClosed = FALSE
    /\ tcRpc = "none"
    /\ tcData = <<>>
    /\ tcLog = <<>>
    /\ tcPanicked = FALSE

TcNext ==
    \/ TcGoSend
    \/ TcGoRecv
    \/ \E s \in TcSenders : TcSend(s)
    \/ \E s \in TcSenders : TcSenderDone(s)
    \/ TcPrint
    \/ TcRecvExit
    \/ TcWait
    \/ TcClose

\* ------------------------------------------------------------------ graceful shutdown

\* demonstrateGracefulShutdown: for i := 0; i < 3; i++ { ch <- i }
gsSends == 3

GsProg == prog \in {"graceful", "quitworker"}

\* demonstrateGracefulShutdown: go workerWithQuit(ch, quit)
GsGo ==
    /\ GsProg
    /\ gsMainPc = "start"
    /\ gsWpc' = "select"
    /\ gsMainPc' = "send"
    /\ UNCHANGED <<prog, gsI, gsVal, gsReceived, gsProcessed, tqVars, poolVars,
                   tcVars, auxVars>>

\* ch <- i meets `case val := <-ch` of the worker's select (ch is unbuffered)
GsSend ==
    /\ GsProg
    /\ gsMainPc = "send"
    /\ gsI < gsSends
    /\ gsWpc = "select"
    /\ gsVal' = gsI
    /\ gsReceived' = Append(gsReceived, gsI)
    /\ gsWpc' = "print"
    /\ gsI' = gsI + 1
    /\ UNCHANGED <<prog, gsMainPc, gsProcessed, tqVars, poolVars, tcVars, auxVars>>

\* demonstrateGracefulShutdown: the send loop is over; time.Sleep
GsSendDone ==
    /\ GsProg
    /\ gsMainPc = "send"
    /\ gsI = gsSends
    /\ gsMainPc' = "quit"
    /\ UNCHANGED <<prog, gsI, gsWpc, gsVal, gsReceived, gsProcessed, tqVars,
                   poolVars, tcVars, auxVars>>

\* workerWithQuit: fmt.Printf of val, then back to the select
GsPrint ==
    /\ GsProg
    /\ gsWpc = "print"
    /\ gsProcessed' = Append(gsProcessed, gsVal)
    /\ gsWpc' = "select"
    /\ UNCHANGED <<prog, gsMainPc, gsI, gsVal, gsReceived, tqVars, poolVars,
                   tcVars, auxVars>>

QuitReadyAnywhere == gsWpc \in {"select", "print"}

\* workerWithQuit: `case <-quit` is one case of the select at the top of the
\* loop, the only place where the worker receives from quit.
QuitReady == gsWpc = "select"

\* quit <- true meets `case <-quit`: the worker prints and returns
GsQuit ==
    /\ GsProg
    /\ gsMainPc = "quit"
    /\ QuitReady
    /\ gsWpc' = "returned"
    /\ gsMainPc' = "done"
    /\ UNCHANGED <<prog, gsI, gsVal, gsReceived, gsProcessed, tqVars, poolVars,
                   tcVars, auxVars>>

\* A caller of workerWithQuit other than the demonstration: it sends quit
\* while it still has values to send.
GsQuitEarly ==
    /\ prog = "quitworker"
    /\ gsMainPc = "send"
    /\ QuitReady
    /\ gsWpc' = "returned"
    /\ gsMainPc' = "done"
    /\ UNCHANGED <<prog, gsI, gsVal, gsReceived, gsProcessed, tqVars, poolVars,
                   tcVars, auxVars>>

\* demonstrateGracefulShutdown: ch and quit made, nothing started
GsInit ==
    /\ gsMainPc = "start"
    /\ gsI = 0
    /\ gsWpc = "none"
    /\ gsVal = 0
    /\ gsReceived = <<>>
    /\ gsProcessed = <<>>

GsNext ==
    \/ GsGo
    \/ GsSend
    \/ GsSendDone
    \/ GsPrint
    \/ GsQuit
    \/ GsQuitEarly

\* ------------------------------------------------------------------ Queue[T]

\* Pushes made on one queue.
MaxPushes == 3

\* The elements pushed (each a *T to a distinct variable); 0 stands for nil.
QueueVals == {1, 2}

\* Push: obj.elements = append(obj.elements, element)
QPush(e, x) == Append(e, x)

QPopLast(e) ==
    IF Len(e) = 0
    THEN [val |-> 0, ok |-> FALSE, rest |-> e]
    ELSE [val |-> e[Len(e)], ok |-> TRUE, rest |-> SubSeq(e, 1, Len(e) - 1)]

\* Pop: (nil, false) when len(obj.elements) == 0, else obj.elements[0] and
\* true, leaving obj.elements[1:sizeElements].  Queue.Dequeue of
\* c_03/tutorial/07_error_handling.go does the same with the zero value.
QPop(e) ==
    IF Len(e) = 0
    THEN [val |-> 0, ok |-> FALSE, rest |-> e]
    ELSE [val |-> e[1], ok |-> TRUE, rest |-> SubSeq(e, 2, Len(e))]

\* func (obj *Queue[T]) Push(element *T)
QuPush(x) ==
    /\ prog = "queue"
    /\ Len(quPushLog) < MaxPushes
    /\ quElems' = QPush(quElems, x)
    /\ quPushLog' = Append(quPushLog, x)
    /\ UNCHANGED <<quPopLog, quLast, notQuVars>>

\* func (obj *Queue[T]) Pop() (*T, bool)
QuPop ==
    /\ prog = "queue"
    /\ LET r == QPop(quElems) IN
       /\ quElems' = r.rest
       /\ quLast' = [val |-> r.val, ok |-> r.ok, size |-> Len(quElems)]
       /\ quPopLog' = IF r.ok THEN Append(quPopLog, r.val) ELSE quPopLog
    /\ UNCHANGED <<quPushLog, notQuVars>>

\* &Queue[T]{}: no element, no Pop made
QuInit ==
    /\ quElems = <<>>
    /\ quPushLog = <<>>
    /\ quPopLog = <<>>
    /\ quLast = [val |-> 0, ok |-> FALSE, size |-> 0]

QuNext ==
    \/ \E x \in QueueVals : QuPush(x)
    \/ QuPop

\* ------------------------------------------------------------------ accumulator

\* Calls of addFunc and subFunc made on one accumulator.
MaxAccCalls == 3

\* Initial values passed to accumulatorMaker (main passes 5).
AccInits == {0, 5}

\* Amounts passed to addFunc and subFunc (main passes 3).
AccAmounts == {1, 3}

\* accumulatorMaker(initVal): addVal := initVal; subVal := initVal; the two
\* closures are returned
AcMake(v) ==
    /\ prog = "accum"
    /\ acPc = "make"
    /\ acInit' = v
    /\ acAddVal' = v
    /\ acSubVal' = v
    /\ acLast' = v
    /\ acPc' = "ready"
    /\ UNCHANGED <<acAdded, acSubbed, acCalls, notAcVars>>

\* addFunc(accumulation): addVal += accumulation; return addVal
AcAdd(x) ==
    /\ prog = "accum"
    /\ acPc = "ready"
    /\ acCalls < MaxAccCalls
    /\ acAddVal' = acAddVal + x
    /\ acLast' = acAddVal + x
    /\ acAdded' = acAdded + x
    /\ acCalls' = acCalls + 1
    /\ UNCHANGED <<acPc, acInit, acSubVal, acSubbed, notAcVars>>

\* subFunc(accumulation): subVal -= accumulation; return subVal
AcSub(y) ==
    /\ prog = "accum"
    /\ acPc = "ready"
    /\ acCalls < MaxAccCalls
    /\ acSubVal' = acSubVal - y
    /\ acLast' = acSubVal - y
    /\ acSubbed' = acSubbed + y
    /\ acCalls' = acCalls + 1
    /\ UNCHANGED <<acPc, acInit, acAddVal, acAdded, notAcVars>>

\* Before accumulatorMaker is called.
AcInit ==
    /\ acPc = "make"
    /\ acInit = 0
    /\ acAddVal = 0
    /\ acSubVal = 0
    /\ acAdded = 0
    /\ acSubbed = 0
    /\ acLast = 0
    /\ acCalls = 0

AcNext ==
    \/ \E v \in AccInits : AcMake(v)
    \/ \E x \in AccAmounts : AcAdd(x)
    \/ \E y \in AccAmounts : AcSub(y)

\* ------------------------------------------------------------------ filter

\* Longest slice passed to filter.
MaxArrLen == 3

\* Elements of the slices passed to filter.
FilterVals == {0, 1, 2}

\* A predicate func(int) bool is given by the set of values it is true of
\* (main passes val == 0, the set {0}).
FilterPreds == SUBSET FilterVals

FilterArrs == UNION {[1..n -> FilterVals] : n \in 0..MaxArrLen}

\* filter: for _, v := range arr { if !filterFunc(v) { outArr = append(outArr, v) } }
RECURSIVE FilterLoop(_, _, _, _)
FilterLoop(arr, pred, i, out) ==
    IF i > Len(arr) THEN out
    ELSE FilterLoop(arr, pred, i + 1,
                    IF ~(arr[i] \in pred) THEN Append(out, arr[i]) ELSE out)

\* filter(arr, filterFunc): outArr starts empty; the loop; return outArr
Filter(arr, pred) == FilterLoop(arr, pred, 1, <<>>)

\* outArr := filter(arr, filterFunc), for any slice and any predicate
FiCall ==
    /\ prog = "filter"
    /\ fiPc = "call"
    /\ \E arr \in FilterArrs, pred \in FilterPreds :
        /\ fiArr' = arr
        /\ fiPred' = pred
        /\ fiOut' = Filter(arr, pred)
    /\ fiPc' = "done"
    /\ UNCHANGED notFiVars

\* Before filter is called.
FiInit ==
    /\ fiPc = "call"
    /\ fiArr = <<>>
    /\ fiPred = {}
    /\ fiOut = <<>>

FiNext == FiCall

\* ------------------------------------------------------------------ Counter

\* Goroutines started by demonstrateMutex / demonstrateAtomic (1000 in the source).
NumIncs == 3

CnGoroutines == 1..NumIncs

CnProg == prog \in {"mutex", "atomic"}

\* c.mu.Lock() by goroutine g blocks unless the mutex is free.
\* Without mutual exclusion a goroutine is held up only by itself.
CnMuFreeNoExclusion(g) == cnMu # g

CnMuFree(g) == cnMu = 0

\* for i := 0; i < 1000; i++ { wg.Add(1); go func() {...}() }
CnSpawn ==
    /\ CnProg
    /\ cnMainPc = "spawn"
    /\ cnI < NumIncs
    /\ cnI' = cnI + 1
    /\ cnWg' = cnWg + 1
    /\ cnPc' = [cnPc EXCEPT ![cnI + 1] = IF prog = "mutex" THEN "lock" ELSE "add"]
    /\ cnMainPc' = IF cnI + 1 = NumIncs THEN "wait" ELSE "spawn"
    /\ UNCHANGED <<cnMu, cnValue, cnTmp, cnGot>>
    /\ UNCHANGED notCnVars

\* Inc: c.mu.Lock()
CnLock(g) ==
    /\ prog = "mutex"
    /\ cnPc[g] = "lock"
    /\ CnMuFree(g)
    /\ cnMu' = g
    /\ cnPc' = [cnPc EXCEPT ![g] = "load"]
    /\ UNCHANGED <<cnMainPc, cnI, cnWg, cnValue, cnTmp, cnGot>>
    /\ UNCHANGED notCnVars

\* Inc: c.value++, the read of c.value
CnLoad(g) ==
    /\ prog = "mutex"
    /\ cnPc[g] = "load"
    /\ cnTmp' = [cnTmp EXCEPT ![g] = cnValue]
    /\ cnPc' = [cnPc EXCEPT ![g] = "store"]
    /\ UNCHANGED <<cnMainPc, cnI, cnWg, cnMu, cnValue, cnGot>>
    /\ UNCHANGED notCnVars

\* Inc: c.value++, the write of c.value
CnStore(g) ==
    /\ prog = "mutex"
    /\ cnPc[g] = "store"
    /\ cnValue' = cnTmp[g] + 1
    /\ cnPc' = [cnPc EXCEPT ![g] = "unlock"]
    /\ UNCHANGED <<cnMainPc, cnI, cnWg, cnMu, cnTmp, cnGot>>
    /\ UNCHANGED notCnVars

\* Inc: defer c.mu.Unlock()
CnUnlock(g) ==
    /\ prog = "mutex"
    /\ cnPc[g] = "unlock"
    /\ cnMu' = 0
    /\ cnPc' = [cnPc EXCEPT ![g] = "wgdone"]
    /\ UNCHANGED <<cnMainPc, cnI, cnWg, cnValue, cnTmp, cnGot>>
    /\ UNCHANGED notCnVars

\* demonstrateAtomic: atomic.AddInt64(&counter, 1)
CnAtomicAdd(g) ==
    /\ prog = "atomic"
    /\ cnPc[g] = "add"
    /\ cnValue' = cnValue + 1
    /\ cnPc' = [cnPc EXCEPT ![g] = "wgdone"]
    /\ UNCHANGED <<cnMainPc, cnI, cnWg, cnMu, cnTmp, cnGot>>
    /\ UNCHANGED notCnVars

\* defer wg.Done()
CnDone(g) ==
    /\ CnProg
    /\ cnPc[g] = "wgdone"
    /\ cnWg' = cnWg - 1
    /\ cnPc' = [cnPc EXCEPT ![g] = "done"]
    /\ UNCHANGED <<cnMainPc, cnI, cnMu, cnValue, cnTmp, cnGot>>
    /\ UNCHANGED notCnVars

\* wg.Wait()
CnWait ==
    /\ CnProg
    /\ cnMainPc = "wait"
    /\ cnWg = 0
    /\ cnMainPc' = "get"
    /\ UNCHANGED <<cnI, cnWg, cnMu, cnValue, cnPc, cnTmp, cnGot>>
    /\ UNCHANGED notCnVars

\* counter.Get() (Lock; return c.value; Unlock) / atomic.LoadInt64(&counter)
CnGet ==
    /\ CnProg
    /\ cnMainPc = "get"
    /\ CnMuFree(0)
    /\ cnGot' = cnValue
    /\ cnMainPc' = "done"
    /\ UNCHANGED <<cnI, cnWg, cnMu, cnValue, cnPc, cnTmp>>
    /\ UNCHANGED notCnVars

\* var counter Counter; var wg sync.WaitGroup
CnInit ==
    /\ cnMainPc = "spawn"
    /\ cnI = 0
    /\ cnWg = 0
    /\ cnMu = 0
    /\ cnValue = 0
    /\ cnPc = [g \in CnGoroutines |-> "idle"]
    /\ cnTmp = [g \in CnGoroutines |-> 0]
    /\ cnGot = 0

CnNext ==
    \/ CnSpawn
    \/ CnWait
    \/ CnGet
    \/ \E g \in CnGoroutines :
        \/ CnLock(g)
        \/ CnLoad(g)
        \/ CnStore(g)
        \/ CnUnlock(g)
        \/ CnAtomicAdd(g)
        \/ CnDone(g)

\* ------------------------------------------------------------------ Once

\* Goroutines started by demonstrateOnce (10 in the source).
NumCallers == 3

OnGoroutines == 1..NumCallers

\* once.Do takes the Once's mutex on its slow path; goroutine g blocks
\* unless the mutex is free.
\* Without mutual exclusion a goroutine is held up only by itself.
OnMuFreeNoExclusion(g) == onMu # g

OnMuFree(g) == onMu = 0

\* for i := 0; i < 10; i++ { wg.Add(1); go func(n int) {...}(i) }
OnSpawn ==
    /\ prog = "once"
    /\ onMainPc = "spawn"
    /\ onI < NumCallers
    /\ onI' = onI + 1
    /\ onWg' = onWg + 1
    /\ onPc' = [onPc EXCEPT ![onI + 1] = "do"]
    /\ onMainPc' = IF onI + 1 = NumCallers THEN "wait" ELSE "spawn"
    /\ UNCHANGED <<onMu, onDone, onInstance, onCreated, onGot>>
    /\ UNCHANGED notOnVars

\* GetInstance: once.Do(...), the fast path: return if the Once is done
OnDoFast(g) ==
    /\ prog = "once"
    /\ onPc[g] = "do"
    /\ onPc' = [onPc EXCEPT ![g] = IF onDone THEN "ret" ELSE "slow"]
    /\ UNCHANGED <<onMainPc, onI, onWg, onMu, onDone, onInstance, onCreated, onGot>>
    /\ UNCHANGED notOnVars

\* once.Do, the slow path: lock, and call f only if the Once is still not done
OnDoSlow(g) ==
    /\ prog = "once"
    /\ onPc[g] = "slow"
    /\ OnMuFree(g)
    /\ onMu' = g
    /\ onPc' = [onPc EXCEPT ![g] = IF onDone THEN "unlock" ELSE "f"]
    /\ UNCHANGED <<onMainPc, onI, onWg, onDone, onInstance, onCreated, onGot>>
    /\ UNCHANGED notOnVars

\* the function passed to once.Do: instance = &Singleton{data: "singleton data"}
OnConstruct(g) ==
    /\ prog = "once"
    /\ onPc[g] = "f"
    /\ onCreated' = onCreated + 1
    /\ onInstance' = onCreated + 1
    /\ onPc' = [onPc EXCEPT ![g] = "setdone"]
    /\ UNCHANGED <<onMainPc, onI, onWg, onMu, onDone, onGot>>
    /\ UNCHANGED notOnVars

\* once.Do: after f returns the Once is marked done
OnSetDone(g) ==
    /\ prog = "once"
    /\ onPc[g] = "setdone"
    /\ onDone' = TRUE
    /\ onPc' = [onPc EXCEPT ![g] = "unlock"]
    /\ UNCHANGED <<onMainPc, onI, onWg, onMu, onInstance, onCreated, onGot>>
    /\ UNCHANGED notOnVars

\* once.Do: the slow path unlocks and returns
OnUnlock(g) ==
    /\ prog = "once"
    /\ onPc[g] = "unlock"
    /\ onMu' = 0
    /\ onPc' = [onPc EXCEPT ![g] = "ret"]
    /\ UNCHANGED <<onMainPc, onI, onWg, onDone, onInstance, onCreated, onGot>>
    /\ UNCHANGED notOnVars

\* GetInstance: return instance
OnReturn(g) ==
    /\ prog = "once"
    /\ onPc[g] = "ret"
    /\ onGot' = [onGot EXCEPT ![g] = onInstance]
    /\ onPc' = [onPc EXCEPT ![g] = "wgdone"]
    /\ UNCHANGED <<onMainPc, onI, onWg, onMu, onDone, onInstance, onCreated>>
    /\ UNCHANGED notOnVars

\* defer wg.Done()
OnDone(g) ==
    /\ prog = "once"
    /\ onPc[g] = "wgdone"
    /\ onWg' = onWg - 1
    /\ onPc' = [onPc EXCEPT ![g] = "done"]
    /\ UNCHANGED <<onMainPc, onI, onMu, onDone, onInstance, onCreated, onGot>>
    /\ UNCHANGED notOnVars

\* wg.Wait()
OnWait ==
    /\ prog = "once"
    /\ onMainPc = "wait"
    /\ onWg = 0
    /\ onMainPc' = "done"
    /\ UNCHANGED <<onI, onWg, onMu, onDone, onInstance, onCreated, onPc, onGot>>
    /\ UNCHANGED notOnVars

\* var ( instance *Singleton; once sync.Once ): nil and not done
OnInit ==
    /\ onMainPc = "spawn"
    /\ onI = 0
    /\ onWg = 0
    /\ onMu = 0
    /\ onDone = FALSE
    /\ onInstance = 0
    /\ onCreated = 0
    /\ onPc = [g \in OnGoroutines |-> "idle"]
    /\ onGot = [g \in OnGoroutines |-> 0]

OnNext ==
    \/ OnSpawn
    \/ OnWait
    \/ \E g \in OnGoroutines :
        \/ OnDoFast(g)
        \/ OnDoSlow(g)
        \/ OnConstruct(g)
        \/ OnSetDone(g)
        \/ OnUnlock(g)
        \/ OnReturn(g)
        \/ OnDone(g)

\* ------------------------------------------------------------------ processItems

\* Most items passed to processItems.
MaxItems == 3

\* Capacity of sem (10 in the source).
SemCap == 2

PsItems == 1..MaxItems

\* sem <- struct{}{} blocks unless sem has room.
\* A semaphore with a slot for every item limits nothing.
SemRoomPerItem == psSem < psN + 1

SemRoom == psSem < SemCap

\* processItems(items): len(items) is any number up to MaxItems
PsCall(n) ==
    /\ prog = "processitems"
    /\ psMainPc = "call"
    /\ psN' = n
    /\ psMainPc' = IF n = 0 THEN "gocloser" ELSE "spawn"
    /\ UNCHANGED <<psI, psWg, psSem, psPc, psErrChan, psErrClosed, psCloserPc, psRet>>
    /\ UNCHANGED notPsVars

\* for _, item := range items { wg.Add(1); go func(i Item) {...}(item) }
PsSpawn ==
    /\ prog = "processitems"
    /\ psMainPc = "spawn"
    /\ psI < psN
    /\ psI' = psI + 1
    /\ psWg' = psWg + 1
    /\ psPc' = [psPc EXCEPT ![psI + 1] = "acquire"]
    /\ psMainPc' = IF psI + 1 = psN THEN "gocloser" ELSE "spawn"
    /\ UNCHANGED <<psN, psSem, psErrChan, psErrClosed, psCloserPc, psRet>>
    /\ UNCHANGED notPsVars

\* go func() { wg.Wait(); close(errChan) }()
PsGoCloser ==
    /\ prog = "processitems"
    /\ psMainPc = "gocloser"
    /\ psCloserPc' = "wait"
    /\ psMainPc' = "range"
    /\ UNCHANGED <<psN, psI, psWg, psSem, psPc, psErrChan, psErrClosed, psRet>>
    /\ UNCHANGED notPsVars

\* sem <- struct{}{} (Acquire)
PsAcquire(g) ==
    /\ prog = "processitems"
    /\ psPc[g] = "acquire"
    /\ SemRoom
    /\ psSem' = psSem + 1
    /\ psPc' = [psPc EXCEPT ![g] = "process"]
    /\ UNCHANGED <<psMainPc, psN, psI, psWg, psErrChan, psErrClosed, psCloserPc, psRet>>
    /\ UNCHANGED notPsVars

\* if err := process(ctx, i); err != nil: process returns an error or nil
PsProcess(g, failed) ==
    /\ prog = "processitems"
    /\ psPc[g] = "process"
    /\ psPc' = [psPc EXCEPT ![g] = IF failed THEN "senderr" ELSE "release"]
    /\ UNCHANGED <<psMainPc, psN, psI, psWg, psSem, psErrChan, psErrClosed, psCloserPc, psRet>>
    /\ UNCHANGED notPsVars

\* errChan <- err (errChan has room for len(items) errors)
PsSendErr(g) ==
    /\ prog = "processitems"
    /\ psPc[g] = "senderr"
    /\ Len(psErrChan) < psN
    /\ psErrChan' = Append(psErrChan, g)
    /\ psPc' = [psPc EXCEPT ![g] = "release"]
    /\ UNCHANGED <<psMainPc, psN, psI, psWg, psSem, psErrClosed, psCloserPc, psRet>>
    /\ UNCHANGED notPsVars

\* defer func() { <-sem }() (Release)
PsRelease(g) ==
    /\ prog = "processitems"
    /\ psPc[g] = "release"
    /\ psSem > 0
    /\ psSem' = psSem - 1
    /\ psPc' = [psPc EXCEPT ![g] = "wgdone"]
    /\ UNCHANGED <<psMainPc, psN, psI, psWg, psErrChan, psErrClosed, psCloserPc, psRet>>
    /\ UNCHANGED notPsVars

\* defer wg.Done()
PsWgDone(g) ==
    /\ prog = "processitems"
    /\ psPc[g] = "wgdone"
    /\ psWg' = psWg - 1
    /\ psPc' = [psPc EXCEPT ![g] = "done"]
    /\ UNCHANGED <<psMainPc, psN, psI, psSem, psErrChan, psErrClosed, psCloserPc, psRet>>
    /\ UNCHANGED notPsVars

\* the closer goroutine: wg.Wait(); close(errChan)
PsCloserClose ==
    /\ prog = "processitems"
    /\ psCloserPc = "wait"
    /\ psWg = 0
    /\ psErrClosed' = TRUE
    /\ psCloserPc' = "done"
    /\ UNCHANGED <<psMainPc, psN, psI, psWg, psSem, psPc, psErrChan, psRet>>
    /\ UNCHANGED notPsVars

\* for err := range errChan { if err != nil { return err } }
PsRecvErr ==
    /\ prog = "processitems"
    /\ psMainPc = "range"
    /\ psErrChan # <<>>
    /\ psRet' = Head(psErrChan)
    /\ psErrChan' = Tail(psErrChan)
    /\ psMainPc' = "returned"
    /\ UNCHANGED <<psN, psI, psWg, psSem, psPc, psErrClosed, psCloserPc>>
    /\ UNCHANGED notPsVars

\* the range loop ends when errChan is closed and drained: return nil
PsRangeEnd ==
    /\ prog = "processitems"
    /\ psMainPc = "range"
    /\ psErrChan = <<>>
    /\ psErrClosed
    /\ psRet' = 0
    /\ psMainPc' = "returned"
    /\ UNCHANGED <<psN, psI, psWg, psSem, psPc, psErrChan, psErrClosed, psCloserPc>>
    /\ UNCHANGED notPsVars

\* processItems before it is called: empty channels, wg at 0
PsInit ==
    /\ psMainPc = "call"
    /\ psN = 0
    /\ psI = 0
    /\ psWg = 0
    /\ psSem = 0
    /\ psPc = [g \in PsItems |-> "idle"]
    /\ psErrChan = <<>>
    /\ psErrClosed = FALSE
    /\ psCloserPc = "idle"
    /\ psRet = 0

PsNext ==
    \/ \E n \in 0..MaxItems : PsCall(n)
    \/ PsSpawn
    \/ PsGoCloser
    \/ PsCloserClose
    \/ PsRecvErr
    \/ PsRangeEnd
    \/ \E g \in PsItems :
        \/ PsAcquire(g)
        \/ \E failed \in BOOLEAN : PsProcess(g, failed)
        \/ PsSendErr(g)
        \/ PsRelease(g)
        \/ PsWgDone(g)

\* ------------------------------------------------------------------ process(ctx)

\* Calls of process(ctx) under one context.
NumProcessCalls == 2

PgCalls == 1..NumProcessCalls

\* What expensiveOperation() may return.
PgResults == {1, 2}

\* ch := make(chan int, 1)
PgChCap == 1

\* The select of the BAD process(): the only case is a send on an unbuffered
\* channel, ready while the caller is receiving.
PgGoCasesUnbuffered(c) == {k \in {"send"} : pgCallerPc[c] = "select"}

\* The cases of the goroutine's select that can proceed:
\* case ch <- result (ch has room) and case <-ctx.Done() (ctx is cancelled).
PgGoCases(c) ==
    {k \in {"send", "ctx"} : \/ k = "send" /\ Len(pgCh[c]) < PgChCap
                             \/ k = "ctx" /\ pgCtxDone}

\* process(ctx): ch := make(chan int, 1); go func() {...}()
PgCall(c) ==
    /\ prog = "process"
    /\ pgCallerPc[c] = "idle"
    /\ pgCallerPc' = [pgCallerPc EXCEPT ![c] = "select"]
    /\ pgGPc' = [pgGPc EXCEPT ![c] = "compute"]
    /\ UNCHANGED <<pgCh, pgVal, pgCtxDone, pgRet>>
    /\ UNCHANGED notPgVars

\* the goroutine's select evaluates expensiveOperation() before it waits
PgCompute(c, v) ==
    /\ prog = "process"
    /\ pgGPc[c] = "compute"
    /\ pgVal' = [pgVal EXCEPT ![c] = v]
    /\ pgGPc' = [pgGPc EXCEPT ![c] = "select"]
    /\ UNCHANGED <<pgCallerPc, pgCh, pgCtxDone, pgRet>>
    /\ UNCHANGED notPgVars

\* select { case ch <- expensiveOperation(): case <-ctx.Done(): }
PgGoSelect(c) ==
    /\ prog = "process"
    /\ pgGPc[c] = "select"
    /\ \E k \in PgGoCases(c) :
        pgCh' = IF k = "send" THEN [pgCh EXCEPT ![c] = Append(@, pgVal[c])]
                ELSE pgCh
    /\ pgGPc' = [pgGPc EXCEPT ![c] = "done"]
    /\ UNCHANGED <<pgCallerPc, pgVal, pgCtxDone, pgRet>>
    /\ UNCHANGED notPgVars

\* the caller's select: case result := <-ch, then return nil
PgCallerRecv(c) ==
    /\ prog = "process"
    /\ pgCallerPc[c] = "select"
    /\ pgCh[c] # <<>>
    /\ pgCh' = [pgCh EXCEPT ![c] = Tail(@)]
    /\ pgRet' = [pgRet EXCEPT ![c] = "nil"]
    /\ pgCallerPc' = [pgCallerPc EXCEPT ![c] = "returned"]
    /\ UNCHANGED <<pgGPc, pgVal, pgCtxDone>>
    /\ UNCHANGED notPgVars

\* the caller's select: case <-ctx.Done(): return ctx.Err()
PgCallerCancelled(c) ==
    /\ prog = "process"
    /\ pgCallerPc[c] = "select"
    /\ pgCtxDone
    /\ pgRet' = [pgRet EXCEPT ![c] = "ctxErr"]
    /\ pgCallerPc' = [pgCallerPc EXCEPT ![c] = "returned"]
    /\ UNCHANGED <<pgGPc, pgCh, pgVal, pgCtxDone>>
    /\ UNCHANGED notPgVars

\* ctx is cancelled or times out: ctx.Done() is closed
PgCtxCancel ==
    /\ prog = "process"
    /\ ~pgCtxDone
    /\ pgCtxDone' = TRUE
    /\ UNCHANGED <<pgCallerPc, pgGPc, pgCh, pgVal, pgRet>>
    /\ UNCHANGED notPgVars

\* No call of process yet, ctx not cancelled.
PgInit ==
    /\ pgCallerPc = [c \in PgCalls |-> "idle"]
    /\ pgGPc = [c \in PgCalls |-> "idle"]
    /\ pgCh = [c \in PgCalls |-> <<>>]
    /\ pgVal = [c \in PgCalls |-> 0]
    /\ pgCtxDone = FALSE
    /\ pgRet = [c \in PgCalls |-> "none"]

PgNext ==
    \/ PgCtxCancel
    \/ \E c \in PgCalls :
        \/ PgCall(c)
        \/ \E v \in PgResults : PgCompute(c, v)
        \/ PgGoSelect(c)
        \/ PgCallerRecv(c)
        \/ PgCallerCancelled(c)

\* ------------------------------------------------------------------ memFunc

\* Most calls of the memoized function.
MaxMemoCalls == 3

\* Keys the memoized function is called with (main calls it with 1).
MemoKeys == {1, 2}

\* Results of the wrapped function; 0 is the zero value of a missing map entry.
MemoVals == {0, 1, 4}

\* The functions memFunc may wrap; main wraps val * val.
MemoFuncs == [MemoKeys -> MemoVals]

\* A memoizer that forgets: the result is not kept.
CacheDropped(cache, key, out) == cache

\* cacheMap[key] = out
CacheStore(cache, key, out) ==
    [k \in DOMAIN cache \cup {key} |-> IF k = key THEN out ELSE cache[k]]

\* getcacheMapFunc := memFunc(oneFunc): cacheMap := map[int]int{}
MmMake(f) ==
    /\ prog = "memo"
    /\ mmPc = "make"
    /\ mmF' = f
    /\ mmCache' = <<>>
    /\ mmPc' = "ready"
    /\ UNCHANGED <<mmInvoked, mmAsked, mmCalls, mmLastKey, mmLastRet>>
    /\ UNCHANGED notMmVars

\* the returned closure: if v, ok := cacheMap[key]; ok { return v };
\* out := oneFunc(key); cacheMap[key] = out; return out
MmCall(key) ==
    /\ prog = "memo"
    /\ mmPc = "ready"
    /\ mmCalls < MaxMemoCalls
    /\ mmCalls' = mmCalls + 1
    /\ mmAsked' = [mmAsked EXCEPT ![key] = @ + 1]
    /\ mmLastKey' = key
    /\ IF key \in DOMAIN mmCache
       THEN /\ mmLastRet' = mmCache[key]
            /\ UNCHANGED <<mmCache, mmInvoked>>
       ELSE /\ mmInvoked' = [mmInvoked EXCEPT ![key] = @ + 1]
            /\ mmCache' = CacheStore(mmCache, key, mmF[key])
            /\ mmLastRet' = mmF[key]
    /\ UNCHANGED <<mmPc, mmF>>
    /\ UNCHANGED notMmVars

\* Before memFunc is called.
MmInit ==
    /\ mmPc = "make"
    /\ mmF = <<>>
    /\ mmCache = <<>>
    /\ mmInvoked = [k \in MemoKeys |-> 0]
    /\ mmAsked = [k \in MemoKeys |-> 0]
    /\ mmCalls = 0
    /\ mmLastKey = 0
    /\ mmLastRet = 0

MmNext ==
    \/ \E f \in MemoFuncs : MmMake(f)
    \/ \E key \in MemoKeys : MmCall(key)

\* ------------------------------------------------------------------ Divide

\* A float32 is a record: k is "num", "inf" or "nan", s the sign (1 or -1),
\* and for a number n / d its magnitude in lowest terms, standing for the
\* float32 nearest to it. Zero has a sign, as in IEEE 754.
F32Num(s, n, d) == [k |-> "num", s |-> s, n |-> n, d |-> d]
F32Inf(s) == [k |-> "inf", s |-> s, n |-> 0, d |-> 1]
F32NaN == [k |-> "nan", s |-> 1, n |-> 0, d |-> 1]
F32Zero == F32Num(1, 0, 1)

\* Arguments of Divide: the values of TestDivide's table (10, 2, 0, 7.5, 2.5,
\* -10, 5), their negatives with -0, the infinities and NaN.
DivideMagnitudes == {<<0, 1>>, <<2, 1>>, <<5, 1>>, <<10, 1>>, <<5, 2>>, <<15, 2>>}
DivideArgs ==
    {F32Num(sg, m[1], m[2]) : sg \in {1, -1}, m \in DivideMagnitudes}
        \cup {F32Inf(1), F32Inf(-1), F32NaN}

RECURSIVE GCD(_, _)
GCD(x, y) == IF y = 0 THEN x ELSE GCD(y, x % y)

\* Go's == on float32: NaN equals nothing, and -0 equals +0.
F32Eq(x, y) ==
    /\ x.k # "nan"
    /\ y.k # "nan"
    /\ \/ x = y
       \/ x.k = "num" /\ y.k = "num" /\ x.n = 0 /\ y.n = 0

\* Go's / on float32.
F32Div(a, b) ==
    IF a.k = "nan" \/ b.k = "nan" THEN F32NaN
    ELSE IF a.k = "inf"
         THEN IF b.k = "inf" THEN F32NaN ELSE F32Inf(a.s * b.s)
    ELSE IF b.k = "inf" THEN F32Num(a.s * b.s, 0, 1)
    ELSE IF b.n = 0
         THEN IF a.n = 0 THEN F32NaN ELSE F32Inf(a.s * b.s)
    ELSE IF a.n = 0 THEN F32Num(a.s * b.s, 0, 1)
    ELSE LET n == a.n * b.d
             d == a.d * b.n
             g == GCD(n, d)
         IN  F32Num(a.s * b.s, n \div g, d \div g)

\* A test of the bits of b against those of 0.0 misses -0.
IsZeroBits(b) == b = F32Zero

\* if b == 0
IsZero(b) == F32Eq(b, F32Zero)

\* Divide(a, b): the pair (result, error); "nil" is the nil error
Divide(a, b) ==
    IF IsZero(b) THEN <<F32Zero, "second value should not be 0">>
    ELSE <<F32Div(a, b), "nil">>

\* got, err := Divide(tt.a, tt.b), for any two arguments
DvCall ==
    /\ prog = "divide"
    /\ dvPc = "call"
    /\ \E a \in DivideArgs, b \in DivideArgs :
        /\ dvA' = a
        /\ dvB' = b
        /\ dvRes' = Divide(a, b)[1]
        /\ dvErr' = Divide(a, b)[2]
    /\ dvPc' = "done"
    /\ UNCHANGED notDvVars

\* Before Divide is called.
DvInit ==
    /\ dvPc = "call"
    /\ dvA = F32Zero
    /\ dvB = F32Zero
    /\ dvRes = F32Zero
    /\ dvErr = "nil"

DvNext == DvCall

\* ------------------------------------------------------------------ q.mu
\* Submit and the snapshot of Run statement by statement, to see what q.mu
\* does for them. What Run does with its snapshot is prog "taskqueue"; here
\* the tasks of a snapshot are recorded as dispatched when Run unlocks.

\* q.mu.Lock() by p blocks unless the mutex is free.
\* Without mutual exclusion a goroutine is held up only by itself.
LkMuFreeNoExclusion(p) == lkMu # p

LkMuFree(p) == lkMu = "free"

\* Submit: q.mu.Lock(); if q.closed { return false }
LkSubmitLock(s) ==
    /\ prog = "tqlock"
    /\ lkPc[s] = "idle"
    /\ lkN[s] < MaxPerSubmitter
    /\ LkMuFree(s)
    /\ lkMu' = s
    /\ lkN' = [lkN EXCEPT ![s] = @ + 1]
    /\ lkPc' = [lkPc EXCEPT ![s] = IF qclosed THEN "retfalse" ELSE "read"]
    /\ UNCHANGED <<lkTasks, lkTmp, lkAccepted, lkRunPc, lkRuns, lkSnap, lkDispatched>>
    /\ UNCHANGED notLkVars

\* Submit: append(q.tasks, task), the read of q.tasks
LkSubmitRead(s) ==
    /\ prog = "tqlock"
    /\ lkPc[s] = "read"
    /\ lkTmp' = [lkTmp EXCEPT ![s] = lkTasks]
    /\ lkPc' = [lkPc EXCEPT ![s] = "write"]
    /\ UNCHANGED <<lkMu, lkTasks, lkN, lkAccepted, lkRunPc, lkRuns, lkSnap, lkDispatched>>
    /\ UNCHANGED notLkVars

\* Submit: q.tasks = append(...), the write of q.tasks
LkSubmitWrite(s) ==
    /\ prog = "tqlock"
    /\ lkPc[s] = "write"
    /\ lkTasks' = Enqueue(lkTmp[s], <<s, lkN[s]>>)
    /\ lkPc' = [lkPc EXCEPT ![s] = "rettrue"]
    /\ UNCHANGED <<lkMu, lkTmp, lkN, lkAccepted, lkRunPc, lkRuns, lkSnap, lkDispatched>>
    /\ UNCHANGED notLkVars

\* Submit: defer q.mu.Unlock(), and Submit returns true or false
LkSubmitReturn(s) ==
    /\ prog = "tqlock"
    /\ lkPc[s] \in {"rettrue", "retfalse"}
    /\ lkMu' = "free"
    /\ lkAccepted' = IF lkPc[s] = "rettrue"
                     THEN lkAccepted \cup {<<s, lkN[s]>>} ELSE lkAccepted
    /\ lkPc' = [lkPc EXCEPT ![s] = "idle"]
    /\ UNCHANGED <<lkTasks, lkTmp, lkN, lkRunPc, lkRuns, lkSnap, lkDispatched>>
    /\ UNCHANGED notLkVars

\* Run: q.mu.Lock()
LkRunLock ==
    /\ prog = "tqlock"
    /\ lkRunPc = "idle"
    /\ lkRuns < MaxRuns
    /\ LkMuFree("run")
    /\ lkMu' = "run"
    /\ lkRuns' = lkRuns + 1
    /\ lkRunPc' = "read"
    /\ UNCHANGED <<lkTasks, lkPc, lkTmp, lkN, lkAccepted, lkSnap, lkDispatched>>
    /\ UNCHANGED notLkVars

\* Run: tasks := q.tasks
LkRunRead ==
    /\ prog = "tqlock"
    /\ lkRunPc = "read"
    /\ lkSnap' = lkTasks
    /\ lkRunPc' = "clear"
    /\ UNCHANGED <<lkMu, lkTasks, lkPc, lkTmp, lkN, lkAccepted, lkRuns, lkDispatched>>
    /\ UNCHANGED notLkVars

\* Run: q.tasks = nil
LkRunClear ==
    /\ prog = "tqlock"
    /\ lkRunPc = "clear"
    /\ lkTasks' = <<>>
    /\ lkRunPc' = "unlock"
    /\ UNCHANGED <<lkMu, lkPc, lkTmp, lkN, lkAccepted, lkRuns, lkSnap, lkDispatched>>
    /\ UNCHANGED notLkVars

\* Run: q.mu.Unlock(); the tasks of the snapshot go to the workers
LkRunUnlock ==
    /\ prog = "tqlock"
    /\ lkRunPc = "unlock"
    /\ lkMu' = "free"
    /\ lkDispatched' = lkDispatched \o lkSnap
    /\ lkSnap' = <<>>
    /\ lkRunPc' = "idle"
    /\ UNCHANGED <<lkTasks, lkPc, lkTmp, lkN, lkAccepted, lkRuns>>
    /\ UNCHANGED notLkVars

\* NewTaskQueue(): no task, mutex free
LkInit ==
    /\ lkMu = "free"
    /\ lkTasks = <<>>
    /\ lkPc = [s \in Submitters |-> "idle"]
    /\ lkTmp = [s \in Submitters |-> <<>>]
    /\ lkN = [s \in Submitters |-> 0]
    /\ lkAccepted = {}
    /\ lkRunPc = "idle"
    /\ lkRuns = 0
    /\ lkSnap = <<>>
    /\ lkDispatched = <<>>

LkNext ==
    \/ LkRunLock
    \/ LkRunRead
    \/ LkRunClear
    \/ LkRunUnlock
    \/ \E s \in Submitters :
        \/ LkSubmitLock(s)
        \/ LkSubmitRead(s)
        \/ LkSubmitWrite(s)
        \/ LkSubmitReturn(s)

\* ------------------------------------------------------------------ fan-out / fan-in

\* Values given to gen: 1..FoNumValues (1..10 in the source).
FoNumValues == 3

\* doWork workers fed from the one gen channel (3 in the source).
FoNumWorkers == 2

FoWorkers == 1..FoNumWorkers

FoAlive == prog = "fanout" /\ ~foPanicked

\* doWork: result := val * 2
FoResult(val) == val * 2

\* A closer that does not wait for the forwarding goroutines.
FoWgWaitSkipped == TRUE

\* fanIn's closer goroutine: wg.Wait() returns when the counter is zero
FoWgWaitReturns == foWg = 0

\* demonstrateFanOutFanIn: in := gen(...); c1, c2, c3 := doWork(i, in);
\* fanIn(c1, c2, c3) with wg.Add(1) per channel and the closer goroutine.
\* Every channel is unbuffered, so no goroutine gets past its first send or
\* receive before its partner exists.
FoStart ==
    /\ FoAlive
    /\ foMainPc = "start"
    /\ foGenI' = 1
    /\ foWPc' = [k \in FoWorkers |-> "range"]
    /\ foFPc' = [k \in FoWorkers |-> "range"]
    /\ foWg' = FoNumWorkers
    /\ foMainPc' = "range"
    /\ UNCHANGED <<foInClosed, foWVal, foCClosed, foFVal, foOutClosed,
                   foConsumed, foWorkLog, foPanicked>>
    /\ UNCHANGED notFoVars

\* gen: out <- n, meeting `for val := range in` of worker k, which computes
\* result := val * 2
FoGenSend(k) ==
    /\ FoAlive
    /\ foMainPc # "start"
    /\ foGenI <= FoNumValues
    /\ foWPc[k] = "range"
    /\ foWVal' = [foWVal EXCEPT ![k] = FoResult(foGenI)]
    /\ foWorkLog' = Append(foWorkLog, <<k, foGenI>>)
    /\ foWPc' = [foWPc EXCEPT ![k] = "send"]
    /\ foGenI' = foGenI + 1
    /\ UNCHANGED <<foMainPc, foInClosed, foCClosed, foFPc, foFVal, foWg,
                   foOutClosed, foConsumed, foPanicked>>
    /\ UNCHANGED notFoVars

\* gen: close(out) after the last value
FoGenClose ==
    /\ FoAlive
    /\ foMainPc # "start"
    /\ foGenI > FoNumValues
    /\ ~foInClosed
    /\ foInClosed' = TRUE
    /\ UNCHANGED <<foMainPc, foGenI, foWPc, foWVal, foCClosed, foFPc, foFVal,
                   foWg, foOutClosed, foConsumed, foWorkLog, foPanicked>>
    /\ UNCHANGED notFoVars

\* doWork: out <- result, meeting `for val := range c` of fanIn's goroutine k
FoWorkSend(k) ==
    /\ FoAlive
    /\ foWPc[k] = "send"
    /\ foFPc[k] = "range"
    /\ foFVal' = [foFVal EXCEPT ![k] = foWVal[k]]
    /\ foFPc' = [foFPc EXCEPT ![k] = "send"]
    /\ foWVal' = [foWVal EXCEPT ![k] = 0]
    /\ foWPc' = [foWPc EXCEPT ![k] = "range"]
    /\ UNCHANGED <<foMainPc, foGenI, foInClosed, foCClosed, foWg, foOutClosed,
                   foConsumed, foWorkLog, foPanicked>>
    /\ UNCHANGED notFoVars

\* doWork: `range in` ends (in is closed); close(out)
FoWorkClose(k) ==
    /\ FoAlive
    /\ foWPc[k] = "range"
    /\ foInClosed
    /\ foCClosed' = [foCClosed EXCEPT ![k] = TRUE]
    /\ foWPc' = [foWPc EXCEPT ![k] = "done"]
    /\ UNCHANGED <<foMainPc, foGenI, foInClosed, foWVal, foFPc, foFVal, foWg,
                   foOutClosed, foConsumed, foWorkLog, foPanicked>>
    /\ UNCHANGED notFoVars

\* fanIn: out <- val, meeting the consumer's `for result := range fanIn(...)`.
\* A send on a closed channel panics.
FoForward(k) ==
    /\ FoAlive
    /\ foFPc[k] = "send"
    /\ foOutClosed \/ foMainPc = "range"
    /\ IF foOutClosed
       THEN /\ foPanicked' = TRUE
            /\ UNCHANGED <<foConsumed, foFVal, foFPc>>
       ELSE /\ foConsumed' = Append(foConsumed, foFVal[k])
            /\ foFVal' = [foFVal EXCEPT ![k] = 0]
            /\ foFPc' = [foFPc EXCEPT ![k] = "range"]
            /\ UNCHANGED foPanicked
    /\ UNCHANGED <<foMainPc, foGenI, foInClosed, foWPc, foWVal, foCClosed,
                   foWg, foOutClosed, foWorkLog>>
    /\ UNCHANGED notFoVars

\* fanIn: `range c` ends (c is closed); defer wg.Done()
FoForwardExit(k) ==
    /\ FoAlive
    /\ foFPc[k] = "range"
    /\ foCClosed[k]
    /\ foFPc' = [foFPc EXCEPT ![k] = "done"]
    /\ foWg' = foWg - 1
    /\ UNCHANGED <<foMainPc, foGenI, foInClosed, foWPc, foWVal, foCClosed,
                   foFVal, foOutClosed, foConsumed, foWorkLog, foPanicked>>
    /\ UNCHANGED notFoVars

\* fanIn's closer goroutine: wg.Wait(); close(out)
FoCloserClose ==
    /\ FoAlive
    /\ foMainPc # "start"
    /\ ~foOutClosed
    /\ FoWgWaitReturns
    /\ foOutClosed' = TRUE
    /\ UNCHANGED <<foMainPc, foGenI, foInClosed, foWPc, foWVal, foCClosed,
                   foFPc, foFVal, foWg, foConsumed, foWorkLog, foPanicked>>
    /\ UNCHANGED notFoVars

\* demonstrateFanOutFanIn: the range loop ends (out is closed)
FoConsumeEnd ==
    /\ FoAlive
    /\ foMainPc = "range"
    /\ foOutClosed
    /\ foMainPc' = "done"
    /\ UNCHANGED <<foGenI, foInClosed, foWPc, foWVal, foCClosed, foFPc, foFVal,
                   foWg, foOutClosed, foConsumed, foWorkLog, foPanicked>>
    /\ UNCHANGED notFoVars

\* Before demonstrateFanOutFanIn has built anything.
FoInit ==
    /\ foMainPc = "start"
    /\ foGenI = 1
    /\ foInClosed = FALSE
    /\ foWPc = [k \in FoWorkers |-> "none"]
    /\ foWVal = [k \in FoWorkers |-> 0]
    /\ foCClosed = [k \in FoWorkers |-> FALSE]
    /\ foFPc = [k \in FoWorkers |-> "none"]
    /\ foFVal = [k \in FoWorkers |-> 0]
    /\ foWg = 0
    /\ foOutClosed = FALSE
    /\ foConsumed = <<>>
    /\ foWorkLog = <<>>
    /\ foPanicked = FALSE

FoNext ==
    \/ FoStart
    \/ FoGenClose
    \/ FoCloserClose
    \/ FoConsumeEnd
    \/ \E k \in FoWorkers :
        \/ FoGenSend(k)
        \/ FoWorkSend(k)
        \/ FoWorkClose(k)
        \/ FoForward(k)
        \/ FoForwardExit(k)

\* ------------------------------------------------------------------ pipeline

\* Arguments of gen: those of demonstratePipeline, and a few others (out of
\* order, repeated, all even, all odd, none).
PlInputs == {<<1, 2, 3, 4, 5, 6, 7, 8, 9, 10>>, <<10, 9, 8, 7, 6, 5>>,
             <<2, 4, 6, 8>>, <<4, 1, 2>>, <<6, 6, 3>>, <<1, 3>>, <<2>>, <<>>}

\* sq: n * n
PlSquare(n) == n * n

\* A filter that lets everything through.
PlKeepsAll(n) == TRUE

\* filterEven: if n%2 == 0
PlKeeps(n) == n % 2 = 0

\* demonstratePipeline: c := gen(...); c = sq(c); c = filterEven(c).
\* Every channel is unbuffered, so no goroutine gets past its first send or
\* receive before its partner exists.
PlStart ==
    /\ prog = "pipeline"
    /\ plMainPc = "start"
    /\ \E nums \in PlInputs : plNums' = nums
    /\ plGenI' = 1
    /\ plSqPc' = "range"
    /\ plFePc' = "range"
    /\ plMainPc' = "range"
    /\ UNCHANGED <<plGenClosed, plSqVal, plSqClosed, plFeVal, plOutClosed, plConsumed>>
    /\ UNCHANGED notPlVars

\* gen: out <- n, meeting `for n := range in` of sq, which computes n * n
PlGenSend ==
    /\ prog = "pipeline"
    /\ plMainPc # "start"
    /\ plGenI <= Len(plNums)
    /\ plSqPc = "range"
    /\ plSqVal' = PlSquare(plNums[plGenI])
    /\ plSqPc' = "send"
    /\ plGenI' = plGenI + 1
    /\ UNCHANGED <<plMainPc, plNums, plGenClosed, plSqClosed, plFePc, plFeVal,
                   plOutClosed, plConsumed>>
    /\ UNCHANGED notPlVars

\* gen: close(out) after the last value
PlGenClose ==
    /\ prog = "pipeline"
    /\ plMainPc # "start"
    /\ plGenI > Len(plNums)
    /\ ~plGenClosed
    /\ plGenClosed' = TRUE
    /\ UNCHANGED <<plMainPc, plNums, plGenI, plSqPc, plSqVal, plSqClosed, plFePc,
                   plFeVal, plOutClosed, plConsumed>>
    /\ UNCHANGED notPlVars

\* sq: out <- n * n, meeting `for n := range in` of filterEven, which goes on
\* to send n if n%2 == 0 and back to its range otherwise
PlSqSend ==
    /\ prog = "pipeline"
    /\ plSqPc = "send"
    /\ plFePc = "range"
    /\ plFeVal' = IF PlKeeps(plSqVal) THEN plSqVal ELSE 0
    /\ plFePc' = IF PlKeeps(plSqVal) THEN "send" ELSE "range"
    /\ plSqVal' = 0
    /\ plSqPc' = "range"
    /\ UNCHANGED <<plMainPc, plNums, plGenI, plGenClosed, plSqClosed,
                   plOutClosed, plConsumed>>
    /\ UNCHANGED notPlVars

\* sq: `range in` ends (in is closed); close(out)
PlSqClose ==
    /\ prog = "pipeline"
    /\ plSqPc = "range"
    /\ plGenClosed
    /\ plSqClosed' = TRUE
    /\ plSqPc' = "done"
    /\ UNCHANGED <<plMainPc, plNums, plGenI, plGenClosed, plSqVal, plFePc,
                   plFeVal, plOutClosed, plConsumed>>
    /\ UNCHANGED notPlVars

\* filterEven: out <- n, meeting the consumer's `for result := range c`
PlFeSend ==
    /\ prog = "pipeline"
    /\ plFePc = "send"
    /\ plMainPc = "range"
    /\ plConsumed' = Append(plConsumed, plFeVal)
    /\ plFeVal' = 0
    /\ plFePc' = "range"
    /\ UNCHANGED <<plMainPc, plNums, plGenI, plGenClosed, plSqPc, plSqVal,
                   plSqClosed, plOutClosed>>
    /\ UNCHANGED notPlVars

\* filterEven: `range in` ends (in is closed); close(out)
PlFeClose ==
    /\ prog = "pipeline"
    /\ plFePc = "range"
    /\ plSqClosed
    /\ plOutClosed' = TRUE
    /\ plFePc' = "done"
    /\ UNCHANGED <<plMainPc, plNums, plGenI, plGenClosed, plSqPc, plSqVal,
                   plSqClosed, plFeVal, plConsumed>>
    /\ UNCHANGED notPlVars

\* demonstratePipeline: the range loop ends (c is closed)
PlConsumeEnd ==
    /\ prog = "pipeline"
    /\ plMainPc = "range"
    /\ plOutClosed
    /\ plMainPc' = "done"
    /\ UNCHANGED <<plNums, plGenI, plGenClosed, plSqPc, plSqVal, plSqClosed,
                   plFePc, plFeVal, plOutClosed, plConsumed>>
    /\ UNCHANGED notPlVars

\* Before demonstratePipeline has built anything.
PlInit ==
    /\ plMainPc = "start"
    /\ plNums = <<>>
    /\ plGenI = 1
    /\ plGenClosed = FALSE
    /\ plSqPc = "none"
    /\ plSqVal = 0
    /\ plSqClosed = FALSE
    /\ plFePc = "none"
    /\ plFeVal = 0
    /\ plOutClosed = FALSE
    /\ plConsumed = <<>>

PlNext ==
    \/ PlStart
    \/ PlGenSend
    \/ PlGenClose
    \/ PlSqSend
    \/ PlSqClose
    \/ PlFeSend
    \/ PlFeClose
    \/ PlConsumeEnd

\* ------------------------------------------------------------------ Router
\* Router in its own goroutine and a caller that starts it, uses SendChanData
\* and then closes both channels, as TestRouter does. Time is not counted: a timeout
\* case of a select can be taken whenever none of its other cases can
\* proceed, which covers every length of the caller's pauses.

\* Most calls of SendChanData by the caller (2 in TestRouter).
MaxSends == 2

\* attachChan and chatChan, both unbuffered.
RtChans == {"attach", "chat"}

\* What the caller may pass as channel: one of the two, or a nil channel.
SdChannels == RtChans \cup {"nil"}

\* SendChanData's result: true in the send case, false in the timeout case.
\* A sender that reports success whatever happened.
SdResultAlwaysTrue(case) == TRUE

SdResult(case) == case = "send"

\* if channel == nil
SdIsNil(ch) == ch = "nil"

\* Router's select: a receive case can proceed when the caller is sending on
\* that channel or the channel is closed.
RtRecvReady(ch) == (sdPc = "select" /\ sdCh = ch) \/ rtClosed[ch]

\* TestRouter: go Router(attachChan, chatChan, attachment, chatContent);
\* Router enters its loop and waits in the select
RtGo ==
    /\ prog = "router"
    /\ rtPc = "none"
    /\ rtPc' = "select"
    /\ UNCHANGED <<rtPayload, rtReceived, rtSpun, rtClosed, sdPc, sdCh, sdData, sdN, sdLog>>
    /\ UNCHANGED notRtVars

\* SendChanData(channel, data, timeout): on a nil channel it returns false at
\* once, otherwise it waits in its select
SdCall(ch) ==
    /\ prog = "router"
    /\ sdPc = "idle"
    /\ rtPc # "none"
    /\ sdN < MaxSends
    /\ sdN' = sdN + 1
    /\ sdCh' = ch
    /\ sdData' = sdN + 1
    /\ IF SdIsNil(ch)
       THEN /\ sdLog' = Append(sdLog, [ch |-> ch, data |-> sdN + 1,
                                      ret |-> FALSE, via |-> "nil"])
            /\ UNCHANGED sdPc
       ELSE /\ sdPc' = "select"
            /\ UNCHANGED sdLog
    /\ UNCHANGED <<rtPc, rtPayload, rtReceived, rtSpun, rtClosed>>
    /\ UNCHANGED notRtVars

\* case channel <- data of SendChanData meeting the receive case of Router's
\* select on that channel: ok is true, Router sets and prints the payload and
\* loops; SendChanData returns true
SdSendRecv ==
    /\ prog = "router"
    /\ sdPc = "select"
    /\ rtPc = "select"
    /\ rtReceived' = Append(rtReceived, <<sdCh, sdData>>)
    /\ rtPayload' = [rtPayload EXCEPT ![sdCh] = sdData]
    /\ sdLog' = Append(sdLog, [ch |-> sdCh, data |-> sdData,
                               ret |-> SdResult("send"), via |-> "send"])
    /\ sdPc' = "idle"
    /\ UNCHANGED <<rtPc, rtSpun, rtClosed, sdCh, sdData, sdN>>
    /\ UNCHANGED notRtVars

\* case <-time.After(timeout) of SendChanData, when nobody receives
SdTimeout ==
    /\ prog = "router"
    /\ sdPc = "select"
    /\ rtPc # "select"
    /\ sdLog' = Append(sdLog, [ch |-> sdCh, data |-> sdData,
                               ret |-> SdResult("timeout"), via |-> "timeout"])
    /\ sdPc' = "idle"
    /\ UNCHANGED <<rtPc, rtPayload, rtReceived, rtSpun, rtClosed, sdCh, sdData, sdN>>
    /\ UNCHANGED notRtVars

\* TestRouter: close(attachChan)
SdCloseAttach ==
    /\ prog = "router"
    /\ sdPc = "idle"
    /\ rtPc # "none"
    /\ rtClosed' = [rtClosed EXCEPT !["attach"] = TRUE]
    /\ sdPc' = "closing"
    /\ UNCHANGED <<rtPc, rtPayload, rtReceived, rtSpun, sdCh, sdData, sdN, sdLog>>
    /\ UNCHANGED notRtVars

\* TestRouter: close(chatChan)
SdCloseChat ==
    /\ prog = "router"
    /\ sdPc = "closing"
    /\ rtClosed' = [rtClosed EXCEPT !["chat"] = TRUE]
    /\ sdPc' = "done"
    /\ UNCHANGED <<rtPc, rtPayload, rtReceived, rtSpun, sdCh, sdData, sdN, sdLog>>
    /\ UNCHANGED notRtVars

\* Router's select: a receive from a closed channel returns at once with ok
\* false; nothing is done and the loop goes round
RtRecvClosed(ch) ==
    /\ prog = "router"
    /\ rtPc = "select"
    /\ rtClosed[ch]
    /\ rtSpun' = TRUE
    /\ UNCHANGED <<rtPc, rtPayload, rtReceived, rtClosed, sdPc, sdCh, sdData, sdN, sdLog>>
    /\ UNCHANGED notRtVars

\* Router's select: case <-time.After(time.Second * 10), reached when no
\* receive case could proceed for the whole period: break loop
RtTimeout ==
    /\ prog = "router"
    /\ rtPc = "select"
    /\ \A ch \in RtChans : ~RtRecvReady(ch)
    /\ rtPc' = "returned"
    /\ UNCHANGED <<rtPayload, rtReceived, rtSpun, rtClosed, sdPc, sdCh, sdData, sdN, sdLog>>
    /\ UNCHANGED notRtVars

\* Both channels made and open, nothing started.
RtInit ==
    /\ rtPc = "none"
    /\ rtPayload = [ch \in RtChans |-> 0]
    /\ rtReceived = <<>>
    /\ rtSpun = FALSE
    /\ rtClosed = [ch \in RtChans |-> FALSE]
    /\ sdPc = "idle"
    /\ sdCh = "nil"
    /\ sdData = 0
    /\ sdN = 0
    /\ sdLog = <<>>

\* The steps of Router's goroutine once it is started.
RtRouterStep ==
    \/ SdSendRecv
    \/ RtTimeout
    \/ \E ch \in RtChans : RtRecvClosed(ch)

RtNext ==
    \/ RtGo
    \/ RtRouterStep
    \/ \E ch \in SdChannels : SdCall(ch)
    \/ SdTimeout
    \/ SdCloseAttach
    \/ SdCloseChat

\* ------------------------------------------------------------------ withRetry

\* Largest maxRetries passed to withRetry (3 in demonstrateUtilities).
MaxRetryArg == 3

\* What fn may return: nil; a TimeoutError, whose Temporary() is true; an
\* error whose Temporary() is false; an error without a Temporary method.
WrErrors == {"timeout", "lasting", "plain"}
WrResults == WrErrors \cup {"nil"}

\* t, ok := err.(temporary): ok
WrHasTemporary(err) == err \in {"timeout", "lasting"}

\* t.Temporary()
WrTemporary(err) == err = "timeout"

\* A test that looks at the type only.
WrRetryableByType(err) == WrHasTemporary(err)

\* if t, ok := err.(temporary); ok && t.Temporary()
WrRetryable(err) == WrHasTemporary(err) /\ WrTemporary(err)

\* withRetry(maxRetries, fn): var lastErr error; i := 0
WrCall ==
    /\ prog = "retry"
    /\ wrPc = "call"
    /\ \E m \in 0..MaxRetryArg : wrMax' = m
    /\ wrPc' = "loop"
    /\ UNCHANGED <<wrI, wrLastErr, wrCalls, wrRet>>
    /\ UNCHANGED notWrVars

\* One iteration of the loop: fn() returns r; on a temporary error continue,
\* on another error return it, on nil return nil
WrAttempt ==
    /\ prog = "retry"
    /\ wrPc = "loop"
    /\ wrI < wrMax
    /\ \E r \in WrResults :
        /\ wrCalls' = Append(wrCalls, r)
        /\ IF r # "nil"
           THEN /\ wrLastErr' = r
                /\ IF WrRetryable(r)
                   THEN /\ wrI' = wrI + 1
                        /\ UNCHANGED <<wrPc, wrRet>>
                   ELSE /\ wrRet' = [kind |-> "err", err |-> r]
                        /\ wrPc' = "returned"
                        /\ UNCHANGED wrI
           ELSE /\ wrRet' = [kind |-> "nil", err |-> "nil"]
                /\ wrPc' = "returned"
                /\ UNCHANGED <<wrI, wrLastErr>>
    /\ UNCHANGED wrMax
    /\ UNCHANGED notWrVars

\* The loop ends: return fmt.Errorf("... %w", maxRetries, lastErr)
WrExhausted ==
    /\ prog = "retry"
    /\ wrPc = "loop"
    /\ wrI >= wrMax
    /\ wrRet' = [kind |-> "wrapped", err |-> wrLastErr]
    /\ wrPc' = "returned"
    /\ UNCHANGED <<wrMax, wrI, wrLastErr, wrCalls>>
    /\ UNCHANGED notWrVars

\* Before withRetry is called.
WrInit ==
    /\ wrPc = "call"
    /\ wrMax = 0
    /\ wrI = 0
    /\ wrLastErr = "nil"
    /\ wrCalls = <<>>
    /\ wrRet = [kind |-> "none", err |-> "nil"]

WrNext ==
    \/ WrCall
    \/ WrAttempt
    \/ WrExhausted

\* ------------------------------------------------------------------ BankAccount

\* Most calls of Deposit, Withdraw and Close on one account.
MaxBankOps == 3

\* A float64 is a record: a whole number v, an infinity of sign v, or NaN.
F64Num(v) == [k |-> "num", v |-> v]
F64Inf(sg) == [k |-> "inf", v |-> sg]
F64NaN == [k |-> "nan", v |-> 0]

\* Initial balances and amounts: small whole numbers of either sign, the
\* infinities and NaN.
BankAmounts == {F64Num(v) : v \in -2..3} \cup {F64Inf(1), F64Inf(-1), F64NaN}

\* Go's < on float64: false when either side is NaN.
F64Lt(x, y) ==
    /\ x.k # "nan"
    /\ y.k # "nan"
    /\ \/ x.k = "num" /\ y.k = "num" /\ x.v < y.v
       \/ x.k = "inf" /\ x.v = -1 /\ ~(y.k = "inf" /\ y.v = -1)
       \/ y.k = "inf" /\ y.v = 1 /\ ~(x.k = "inf" /\ x.v = 1)

\* Go's <= on float64
F64Le(x, y) == F64Lt(x, y) \/ (x.k # "nan" /\ x = y)

F64Neg(x) == IF x.k = "nan" THEN x ELSE [k |-> x.k, v |-> 0 - x.v]

\* Go's + on float64
F64Add(x, y) ==
    IF x.k = "nan" \/ y.k = "nan" THEN F64NaN
    ELSE IF x.k = "inf"
         THEN IF y.k = "inf" /\ y.v # x.v THEN F64NaN ELSE x
    ELSE IF y.k = "inf" THEN y
    ELSE F64Num(x.v + y.v)

\* Go's - on float64
F64Sub(x, y) == F64Add(x, F64Neg(y))

\* A constructor that takes the initial balance as it comes.
InitialBalanceUnchecked(b) == b

\* NewBankAccount: if initialBalance < 0 { initialBalance = 0 }
InitialBalance(b) == IF F64Lt(b, F64Num(0)) THEN F64Num(0) ELSE b

\* An account whose closing is not looked at.
BaIsClosedIgnored(closed) == FALSE

\* Deposit / Withdraw: if ba.isClosed
BaIsClosed(closed) == closed

\* account := NewBankAccount(accountNumber, owner, initialBalance)
BaNew ==
    /\ prog = "bank"
    /\ baPc = "new"
    /\ \E b \in BankAmounts : baBalance' = InitialBalance(b)
    /\ baClosed' = FALSE
    /\ baPc' = "open"
    /\ UNCHANGED <<baOps, baLast>>
    /\ UNCHANGED notBaVars

\* What a call leaves behind: the call, the error returned, and the account
\* as it was before.
BaRecord(op, amount, err) ==
    [op |-> op, amount |-> amount, err |-> err,
     balance |-> baBalance, closed |-> baClosed]

\* func (ba *BankAccount) Deposit(amount float64) error
Deposit ==
    /\ prog = "bank"
    /\ baPc = "open"
    /\ baOps < MaxBankOps
    /\ baOps' = baOps + 1
    /\ \E amount \in BankAmounts :
        IF BaIsClosed(baClosed)
        THEN /\ baLast' = BaRecord("Deposit", amount, "closed")
             /\ UNCHANGED baBalance
        ELSE IF F64Le(amount, F64Num(0))
        THEN /\ baLast' = BaRecord("Deposit", amount, "notpositive")
             /\ UNCHANGED baBalance
        ELSE /\ baBalance' = F64Add(baBalance, amount)
             /\ baLast' = BaRecord("Deposit", amount, "nil")
    /\ UNCHANGED <<baPc, baClosed>>
    /\ UNCHANGED notBaVars

\* func (ba *BankAccount) Withdraw(amount float64) error
Withdraw ==
    /\ prog = "bank"
    /\ baPc = "open"
    /\ baOps < MaxBankOps
    /\ baOps' = baOps + 1
    /\ \E amount \in BankAmounts :
        IF BaIsClosed(baClosed)
        THEN /\ baLast' = BaRecord("Withdraw", amount, "closed")
             /\ UNCHANGED baBalance
        ELSE IF F64Le(amount, F64Num(0))
        THEN /\ baLast' = BaRecord("Withdraw", amount, "notpositive")
             /\ UNCHANGED baBalance
        ELSE IF F64Lt(baBalance, amount)
        THEN /\ baLast' = BaRecord("Withdraw", amount, "insufficient")
             /\ UNCHANGED baBalance
        ELSE /\ baBalance' = F64Sub(baBalance, amount)
             /\ baLast' = BaRecord("Withdraw", amount, "nil")
    /\ UNCHANGED <<baPc, baClosed>>
    /\ UNCHANGED notBaVars

\* func (ba *BankAccount) Close()
Close ==
    /\ prog = "bank"
    /\ baPc = "open"
    /\ baOps < MaxBankOps
    /\ baOps' = baOps + 1
    /\ baClosed' = TRUE
    /\ baLast' = BaRecord("Close", F64Num(0), "nil")
    /\ UNCHANGED <<baPc, baBalance>>
    /\ UNCHANGED notBaVars

\* Before NewBankAccount is called.
BaInit ==
    /\ baPc = "new"
    /\ baBalance = F64Num(0)
    /\ baClosed = FALSE
    /\ baOps = 0
    /\ baLast = [op |-> "none", amount |-> F64Num(0), err |-> "nil",
                 balance |-> F64Num(0), closed |-> FALSE]

BaNext ==
    \/ BaNew
    \/ Deposit
    \/ Withdraw
    \/ Close

\* ------------------------------------------------------------------ specification

Progs == {"taskqueue", "workerpool", "testchannel", "graceful", "quitworker",
          "queue", "accum", "filter", "mutex", "atomic", "once",
          "processitems", "process", "memo", "divide", "tqlock", "fanout",
          "pipeline", "router", "retry", "bank"}

Init ==
    /\ prog \in Progs
    /\ TQInit
    /\ PoolInit
    /\ TcInit
    /\ GsInit
    /\ QuInit
    /\ AcInit
    /\ FiInit
    /\ CnInit
    /\ OnInit
    /\ PsInit
    /\ PgInit
    /\ MmInit
    /\ DvInit
    /\ LkInit
    /\ FoInit
    /\ PlInit
    /\ RtInit
    /\ WrInit
    /\ BaInit

Next ==
    \/ TQNext
    \/ PoolNext
    \/ TcNext
    \/ GsNext
    \/ QuNext
    \/ AcNext
    \/ FiNext
    \/ CnNext
    \/ OnNext
    \/ PsNext
    \/ PgNext
    \/ MmNext
    \/ DvNext
    \/ LkNext
    \/ FoNext
    \/ PlNext
    \/ RtNext
    \/ WrNext
    \/ BaNext

Spec == Init /\ [][Next]_vars

TcOnlyInit == Init /\ prog = "testchannel"

\* TestChannel alone, every goroutine being scheduled as long as it can run:
\* the test function, each SendData goroutine, the RecvData goroutine.
TcFairSpec ==
    /\ TcOnlyInit
    /\ [][TcNext]_vars
    /\ WF_vars(TcGoSend \/ TcGoRecv \/ TcWait \/ TcClose)
    /\ \A s \in TcSenders : WF_vars(TcSend(s) \/ TcSenderDone(s))
    /\ WF_vars(TcPrint \/ TcRecvExit)

\* process(ctx) alone. A goroutine whose select has a case that can proceed
\* is eventually run.
PgOnlyInit == Init /\ prog = "process"

PgFairSpec ==
    /\ PgOnlyInit
    /\ [][PgNext]_vars
    /\ \A c \in PgCalls : WF_vars(PgGoSelect(c))

\* demonstrateWorkerPool alone. Whenever some goroutine can take a step, a
\* step is eventually taken.
PoolOnlyInit == Init /\ prog = "workerpool"

PoolFairSpec ==
    /\ PoolOnlyInit
    /\ [][PoolNext]_vars
    /\ WF_vars(PoolNext)

\* demonstrateFanOutFanIn alone. Whenever some goroutine can take a step, a
\* step is eventually taken.
FoOnlyInit == Init /\ prog = "fanout"

FoFairSpec ==
    /\ FoOnlyInit
    /\ [][FoNext]_vars
    /\ WF_vars(FoNext)

\* demonstratePipeline alone. Whenever some goroutine can take a step, a step
\* is eventually taken.
PlOnlyInit == Init /\ prog = "pipeline"

PlFairSpec ==
    /\ PlOnlyInit
    /\ [][PlNext]_vars
    /\ WF_vars(PlNext)

\* Router and its caller alone. Router's goroutine is started and, while one
\* of the cases of its select can proceed, takes a step; the caller may pause
\* for any time, or for ever.
RtOnlyInit == Init /\ prog = "router"

RtFairSpec ==
    /\ RtOnlyInit
    /\ [][RtNext]_vars
    /\ WF_vars(RtGo)
    /\ WF_vars(RtRouterStep)

\* ------------------------------------------------------------------ claims

\* The process has ended or Run has returned.
TQTerminated == panicked # "none" \/ (runPc = "idle" /\ runs >= 1)

\* The accepted tasks that some Run has taken in its snapshot.
TQSnapshotted == Range(acceptLog) \ Range(qtasks)

\* Run has taken its snapshot of the pending tasks at least once.
SnapshotTaken == runs > 1 \/ (runs = 1 /\ runPc # "snapshot")

\* No worker goroutine of Run is alive and no task is being executed.
TQStopped == inExec = {} /\ \A w \in Workers : wpc[w] \in {"none", "exited"}

\* C1: after a graceful shutdown with at least one worker every task accepted
\* before the snapshot has been executed exactly once (no task is dropped, none
\* runs twice), and in the worker pool exactly one result per job reaches the
\* results channel.
C1_EveryAcceptedTaskExecutedOnce ==
    /\ prog = "taskqueue" =>
          /\ \A t \in Tasks : Count(t, startLog) <= 1
          /\ (TQTerminated /\ workerCount >= 1) =>
                \A t \in TQSnapshotted : Count(t, startLog) = 1
    /\ prog = "workerpool" =>
          /\ \A j \in Jobs : Count(j * j, presults \o pcollected) <= 1
          /\ pmainPc = "done" =>
                \A j \in Jobs : Count(j * j, pcollected) = 1

\* C2: once Run has taken its snapshot, every Submit returns false and does
\* not append its task to q.tasks.
C2_SubmitRejectedAfterSnapshot ==
    [][SnapshotTaken =>
          \A s \in Submitters :
              subN'[s] # subN[s] => (subRet'[s] = "false" /\ qtasks' = qtasks)]_vars

\* C3: a task whose action panics does not terminate its worker or the pool:
\* the process is never brought down by a task's panic.
C3_TaskPanicContained == prog = "taskqueue" => panicked # "task"

\* C4: a second call of Run on the same queue, after the first has completed,
\* finishes without panic.
C4_SecondRunDoesNotPanic == (prog = "taskqueue" /\ runs >= 2) => panicked # "closedone"

\* C5: Run(0) with at least one pending task does not hang: Run is never
\* blocked sending a task on taskCh with no worker goroutine to receive it.
C5_ZeroWorkersNeverHang ==
    ~(prog = "taskqueue" /\ runPc = "dispatch" /\ workerCount = 0 /\ di <= Len(snap))

\* C6: Wait never returns before every task dispatched by Run has finished
\* executing and every worker goroutine has exited.
C6_WaitReturnsOnlyWhenStopped ==
    [][(waitPc = "blocked" /\ waitPc' = "returned") => TQStopped]_vars

\* C7: with worker count 1, Run starts the tasks of its snapshot in the order
\* in which Submit accepted them: the tasks started so far are the first
\* di - 1 tasks of the snapshot, in order, and the snapshot is in acceptance
\* order.
C7_FifoSingleWorker ==
    (prog = "taskqueue" /\ workerCount = 1 /\ runPc # "snapshot") =>
        /\ SelectIn(startLog, Range(snap)) = SubSeq(snap, 1, di - 1)
        /\ SelectIn(acceptLog, Range(snap)) = snap

\* C7 witness: one submitter, Run(1) has returned after running that
\* submitter's tasks.
C7_Witness ==
    /\ prog = "taskqueue"
    /\ workerCount = 1
    /\ runPc = "idle"
    /\ subN["B"] = 0
    /\ Len(snap) = MaxPerSubmitter
    /\ Range(snap) \subseteq finished

\* C8: each worker is executing at most one task, so the number of tasks in
\* execution never exceeds the worker count.
C8_AtMostOneTaskPerWorker ==
    /\ prog = "taskqueue" =>
          /\ \A w \in Workers : Cardinality({t \in Tasks : <<w, t>> \in inExec}) <= 1
          /\ Cardinality(inExec) <= workerCount
    /\ prog = "workerpool" =>
          /\ \A w \in PoolWorkers : Cardinality({j \in Jobs : <<w, j>> \in pInProg}) <= 1
          /\ Cardinality(pInProg) <= numWorkers

\* C8 witness: every worker of a Run with several workers is executing a task.
C8_Witness ==
    /\ prog = "taskqueue"
    /\ workerCount = MaxWorkers
    /\ Cardinality(inExec) = MaxWorkers

\* The values RecvData has printed that sender s sent.
TcFrom(s) == SelectIn(tcLog, {s} \X (0..(tcSends - 1)))

\* C9: each submitter's own items keep their relative order: RecvData gets
\* each SendData goroutine's values 0, 1, 2 in that order, and each Submit
\* caller's tasks are in q.tasks in that caller's submission order.
C9_PerSubmitterOrder ==
    /\ prog = "testchannel" =>
          \A s \in TcSenders :
              \A k \in 1..Len(TcFrom(s)) : TcFrom(s)[k] = <<s, k - 1>>
    /\ prog = "taskqueue" =>
          \A i, j \in 1..Len(qtasks) :
              (i < j /\ qtasks[i][1] = qtasks[j][1]) => qtasks[i][2] < qtasks[j][2]

\* C9 witness: two concurrent Submit callers have their tasks interleaved in
\* q.tasks.
C9_Witness ==
    /\ prog = "taskqueue"
    /\ Len(qtasks) >= 4
    /\ qtasks[1][1] = "A"
    /\ qtasks[2][1] = "B"
    /\ qtasks[3][1] = "A"
    /\ qtasks[4][1] = "B"

\* C10: every value the worker received from ch has been processed when the
\* worker returns on quit, and in demonstrateGracefulShutdown all values sent
\* (0, 1, 2) have been processed when the worker exits.
C10_ClaimedValueProcessedBeforeQuit ==
    /\ (GsProg /\ gsWpc = "returned") => gsProcessed = gsReceived
    /\ (prog = "graceful" /\ gsWpc = "returned") =>
          gsProcessed = [i \in 1..gsSends |-> i - 1]

\* C10 witness: the demonstration's worker has returned on quit.
C10_Witness ==
    /\ prog = "graceful"
    /\ gsWpc = "returned"
    /\ Len(gsReceived) = gsSends

\* C11: a worker is never blocked on delivering a result, even if nothing
\* reads from results: whenever a worker holds a job, results is open and has
\* room for its send.
C11_ResultSendNeverBlocks ==
    prog = "workerpool" =>
        /\ ~ppanicked
        /\ pInProg # {} => (~presClosed /\ Len(presults) < ResultsCap)

\* C11 witness: every worker has finished and every result is still in the
\* channel, none read.
C11_Witness ==
    /\ prog = "workerpool"
    /\ \A w \in PoolWorkers : pwpc[w] = "exited"
    /\ Len(presults) = numJobs
    /\ pcollected = <<>>

\* The values RecvData has received from intChan.
TcReceived == Len(tcLog) + (IF tcRpc = "print" THEN 1 ELSE 0)

\* C12: under fair scheduling TestChannel terminates normally: no send on a
\* closed channel, intChan is closed only after wg.Wait returned with every
\* SendData goroutine through its 3 sends, all 6 values have been received
\* when the test returns, and the test does return.
C12_TestChannelTerminates ==
    /\ [](~tcPanicked)
    /\ [](tcClosed => (tcWg = 0 /\ \A s \in TcSenders : tcSpc[s] = "done" /\ tcI[s] = tcSends))
    /\ [](tcMainPc = "returned" => TcReceived = Cardinality(TcSenders) * tcSends)
    /\ <>(tcMainPc = "returned")

\* C12 witness: the test has returned, the channel is closed and RecvData has
\* printed all the values and left its loop.
C12_Witness ==
    /\ prog = "testchannel"
    /\ tcMainPc = "returned"
    /\ tcRpc = "exited"
    /\ Len(tcLog) = Cardinality(TcSenders) * tcSends

\* C13: Pop returns the oldest element pushed and not yet popped, with true,
\* and returns (nil, false) exactly when the queue is empty: the elements
\* popped followed by the elements still queued are the elements pushed, in
\* push order.
C13_QueueFifo ==
    prog = "queue" =>
        /\ quPopLog \o quElems = quPushLog
        /\ quLast.ok <=> quLast.size > 0
        /\ ~quLast.ok => quLast.val = 0
        /\ quLast.ok => quLast.val = quPopLog[Len(quPopLog)]

\* C13 witness: n pushes of different elements, then n pops, of which the
\* last has returned the last element pushed.
C13_Witness ==
    /\ prog = "queue"
    /\ Len(quPushLog) = MaxPushes
    /\ quPushLog[1] # quPushLog[2]
    /\ quPopLog = quPushLog
    /\ quLast.ok

\* C14: the add and sub closures share one state: each call returns the
\* initial value plus everything added so far minus everything subtracted so
\* far.
C14_AccumulatorSharedState ==
    (prog = "accum" /\ acPc = "ready") => acLast = acInit + acAdded - acSubbed

\* C15: filter(nums, predicate) returns exactly the elements of nums for which
\* the predicate is true, in their original order.
C15_FilterKeepsMatching ==
    (prog = "filter" /\ fiPc = "done") => fiOut = SelectIn(fiArr, fiPred)

\* Goroutines whose increment is complete.
CnIncremented == {g \in CnGoroutines : cnPc[g] \in {"unlock", "wgdone", "done"}}

\* C16: no increment is lost: once the N goroutines have each completed one
\* Inc (or one atomic.AddInt64), Get (LoadInt64) returns exactly N; and whenever
\* no increment is under way the value is the number of completed increments.
C16_NoLostIncrement ==
    CnProg =>
        /\ cnMainPc = "done" => cnGot = NumIncs
        /\ (\A g \in CnGoroutines : cnPc[g] \notin {"load", "store"})
               => cnValue = Cardinality(CnIncremented)

\* All goroutines have run Inc under the mutex and main has read the counter.
C16_Witness ==
    /\ prog = "mutex"
    /\ cnMainPc = "done"
    /\ cnGot = NumIncs
    /\ \A g \in CnGoroutines : cnPc[g] = "done"

\* Goroutines whose call of GetInstance has returned.
OnReturned == {g \in OnGoroutines : onPc[g] \in {"wgdone", "done"}}

\* C17: however many goroutines call GetInstance concurrently, the Singleton
\* is constructed exactly once and every call returns that same non-nil
\* instance.
C17_SingletonConstructedOnce ==
    prog = "once" =>
        /\ onCreated <= 1
        /\ \A g \in OnReturned : onCreated = 1 /\ onGot[g] = 1

\* Every goroutine has its instance; one of them came through the slow path
\* after the Once was done, so the second check was needed.
C17_Witness ==
    /\ prog = "once"
    /\ onMainPc = "wait"
    /\ onCreated = 1
    /\ OnReturned # {}
    /\ \E g \in OnGoroutines : onPc[g] = "unlock" /\ onDone /\ onInstance = 1
           /\ \E h \in OnReturned : onGot[h] = 1

\* Items whose call of process() is in progress.
PsInProcess == {g \in PsItems : psPc[g] \in {"process"}}

\* C18: in processItems the semaphore limits concurrency: for any number of
\* items, at most SemCap (10 in the source) calls of process() are in progress
\* at the same time.
C18_SemaphoreLimitsConcurrency ==
    prog = "processitems" => Cardinality(PsInProcess) <= SemCap

\* The limit is reached while a further goroutine waits to acquire.
C18_Witness ==
    /\ prog = "processitems"
    /\ Cardinality(PsInProcess) = SemCap
    /\ ~SemRoom
    /\ \E g \in PsItems : psPc[g] = "acquire"

\* C19: in the GOOD process(ctx) the spawned goroutine always terminates,
\* whether the caller receives the result or returns early on ctx.Done(): a
\* goroutine that has reached its select does not stay blocked on the send.
C19_GoroutineTerminates ==
    \A c \in PgCalls : (pgGPc[c] = "select") ~> (pgGPc[c] = "done")

\* The caller returned early on ctx.Done() and its goroutine has ended all
\* the same, having left its result in the buffer of ch.
C19_Witness ==
    /\ prog = "process"
    /\ \E c \in PgCalls :
        /\ pgRet[c] = "ctxErr"
        /\ pgGPc[c] = "done"
        /\ pgCh[c] = <<pgVal[c]>>

\* C20: the memoized function returns f(key) for every key and, over any
\* sequence of calls, invokes the wrapped function at most once per distinct
\* key: exactly once for a key it was asked for, never for another.
C20_MemoizedOncePerKey ==
    (prog = "memo" /\ mmPc = "ready") =>
        /\ mmCalls > 0 => mmLastRet = mmF[mmLastKey]
        /\ \A k \in MemoKeys : mmInvoked[k] = IF mmAsked[k] > 0 THEN 1 ELSE 0

\* A key asked for a second time is served from the cache, also when the
\* cached result is the zero value.
C20_Witness ==
    /\ prog = "memo"
    /\ mmCalls >= 2
    /\ mmAsked[mmLastKey] >= 2
    /\ mmInvoked[mmLastKey] = 1
    /\ mmF[mmLastKey] = 0
    /\ mmLastRet = 0

\* C21: Divide(a, b) returns an error if and only if b == 0; then the result
\* is 0 and the message is "second value should not be 0"; otherwise the
\* error is nil and the result is a / b.
C21_DivideErrorIffZero ==
    (prog = "divide" /\ dvPc = "done") =>
        /\ dvErr # "nil" <=> F32Eq(dvB, F32Zero)
        /\ F32Eq(dvB, F32Zero) =>
               dvRes = F32Zero /\ dvErr = "second value should not be 0"
        /\ ~F32Eq(dvB, F32Zero) => dvRes = F32Div(dvA, dvB) /\ dvErr = "nil"

\* Divide was called with b = -0, which equals 0, and returned the error.
C21_Witness ==
    /\ prog = "divide"
    /\ dvPc = "done"
    /\ dvB = F32Num(-1, 0, 1)
    /\ dvA = F32Num(1, 10, 1)
    /\ dvErr = "second value should not be 0"

\* Number of places an accepted task is in: the snapshots so far and q.tasks.
LkPlaces(t) == Count(t, lkDispatched) + Count(t, lkTasks)

\* C22: Submit and Run's snapshot are atomic with respect to each other: every
\* task for which Submit returned true is in the snapshot of one Run or still
\* in q.tasks, never lost and never in both (seen whenever no Run is between
\* its snapshot and its unlock).
C22_SubmitSnapshotAtomic ==
    (prog = "tqlock" /\ lkRunPc = "idle") =>
        \A t \in lkAccepted : LkPlaces(t) = 1

\* A Submit was waiting for q.mu while Run took its snapshot; its task and one
\* accepted before the snapshot are each in one place.
C22_Witness ==
    /\ prog = "tqlock"
    /\ lkRunPc = "idle"
    /\ lkDispatched # <<>>
    /\ lkTasks # <<>>
    /\ \A t \in lkAccepted : LkPlaces(t) = 1
    /\ \E t \in lkAccepted : Count(t, lkTasks) = 1
    /\ \E t \in lkAccepted : Count(t, lkDispatched) = 1

\* C23: in demonstrateWorkerPool results is closed only after every worker
\* has exited, so no worker ever sends on a closed results channel, and the
\* collector's range loop over results ends, with results closed by then.
C23_ResultsClosedAfterWorkers ==
    /\ [](~ppanicked)
    /\ [](presClosed => /\ \A w \in PoolWorkers : pwpc[w] = "exited"
                        /\ pInProg = {}
                        /\ pcloserPc = "done")
    /\ <>(pmainPc = "done" /\ presClosed)

\* The collector's loop has ended with every result collected.
C23_Witness ==
    /\ prog = "workerpool"
    /\ pmainPc = "done"
    /\ presClosed
    /\ ~ppanicked
    /\ Len(pcollected) = numJobs

\* Number of places the result of value v is in: held by a worker, held by a
\* fanIn goroutine, or received by the consumer.
FoPlaces(v) ==
    Cardinality({k \in FoWorkers : foWVal[k] = FoResult(v)})
        + Cardinality({k \in FoWorkers : foFVal[k] = FoResult(v)})
        + Count(FoResult(v), foConsumed)

\* Number of workers that received value v from gen.
FoProcessed(v) == Cardinality({i \in 1..Len(foWorkLog) : foWorkLog[i][2] = v})

\* C24: every value gen has sent is processed by exactly one worker and its
\* result is in exactly one place on the way to the consumer; out is closed
\* only after every input of fanIn is closed and drained; the consumer loop
\* ends, having received exactly the doubles of the generated values, each
\* once.
C24_FanInDeliversEachOnce ==
    /\ [](~foPanicked)
    /\ [](\A v \in 1..FoNumValues :
             /\ FoProcessed(v) = IF v < foGenI THEN 1 ELSE 0
             /\ FoPlaces(v) = FoProcessed(v))
    /\ [](foOutClosed => \A k \in FoWorkers : foCClosed[k] /\ foFPc[k] = "done")
    /\ [](foMainPc = "done" =>
             /\ Len(foConsumed) = FoNumValues
             /\ \A v \in 1..FoNumValues : Count(FoResult(v), foConsumed) = 1)
    /\ <>(foMainPc = "done")

\* The consumer loop has ended with every result, and both workers had work.
C24_Witness ==
    /\ prog = "fanout"
    /\ foMainPc = "done"
    /\ Len(foConsumed) = FoNumValues
    /\ \A k \in FoWorkers : \E i \in 1..Len(foWorkLog) : foWorkLog[i][1] = k

\* The even squares of the elements of nums, in the order of nums.
RECURSIVE EvenSquares(_)
EvenSquares(nums) ==
    IF nums = <<>> THEN <<>>
    ELSE LET q == Head(nums) * Head(nums)
         IN  (IF q % 2 = 0 THEN <<q>> ELSE <<>>) \o EvenSquares(Tail(nums))

\* C25: the pipeline gen -> sq -> filterEven emits, in input order, exactly
\* the even squares of its inputs and then closes its output; once the
\* consumer has drained the output every stage goroutine has terminated.
C25_PipelineEvenSquares ==
    /\ [](/\ Len(plConsumed) <= Len(EvenSquares(plNums))
          /\ plConsumed = SubSeq(EvenSquares(plNums), 1, Len(plConsumed)))
    /\ [](plOutClosed => plConsumed = EvenSquares(plNums))
    /\ [](plMainPc = "done" =>
             /\ plGenClosed
             /\ plSqPc = "done"
             /\ plFePc = "done")
    /\ <>(plMainPc = "done")

\* The consumer has drained the pipeline of demonstratePipeline.
C25_Witness ==
    /\ prog = "pipeline"
    /\ plMainPc = "done"
    /\ plNums = <<1, 2, 3, 4, 5, 6, 7, 8, 9, 10>>
    /\ plConsumed = <<4, 16, 36, 64, 100>>

\* C26: Router eventually returns once the senders stop sending, also when
\* attachChan and chatChan have been closed while Router is still running.
C26_RouterEventuallyReturns == <>(rtPc = "returned")

\* Number of times Router received the data of the call logged as e.
SdDelivered(e) == Count(<<e.ch, e.data>>, rtReceived)

\* C27: SendChanData returns true if and only if the value was handed over to
\* the channel; on a nil channel it returns false without waiting; and a
\* value whose send returned false after the timeout is not delivered to any
\* receiver, then or later.
C27_SendResultMeansDelivered ==
    prog = "router" =>
        \A i \in 1..Len(sdLog) :
            LET e == sdLog[i] IN
            /\ e.ret <=> SdDelivered(e) = 1
            /\ ~e.ret => SdDelivered(e) = 0
            /\ e.ch = "nil" => ~e.ret /\ e.via = "nil"
            /\ e.via = "timeout" => ~e.ret

\* Router took one value and quit; the next send timed out and returned
\* false, and its value has reached nobody.
C27_Witness ==
    /\ prog = "router"
    /\ rtPc = "returned"
    /\ Len(sdLog) = 2
    /\ sdLog[1].ret /\ sdLog[1].via = "send"
    /\ ~sdLog[2].ret /\ sdLog[2].via = "timeout"
    /\ Len(rtReceived) = 1

\* fn's result r is a temporary failure.
WrTemporaryFailure(r) == r = "timeout"

\* C28: withRetry calls fn at most maxRetries times; it stops at the first
\* call that returns nil, returning nil, or a non-temporary error, returning
\* that error unchanged; it returns the wrapped error only after maxRetries
\* consecutive temporary failures.
C28_WithRetryStopsAtFirstFinal ==
    (prog = "retry" /\ wrPc # "call") =>
        LET n == Len(wrCalls) IN
        /\ n <= wrMax
        /\ \A i \in 1..(n - 1) : WrTemporaryFailure(wrCalls[i])
        /\ wrPc = "loop" => \A i \in 1..n : WrTemporaryFailure(wrCalls[i])
        /\ wrRet.kind = "nil" => n >= 1 /\ wrCalls[n] = "nil"
        /\ wrRet.kind = "err" =>
               /\ n >= 1
               /\ wrCalls[n] = wrRet.err
               /\ wrRet.err # "nil"
               /\ ~WrTemporaryFailure(wrRet.err)
        /\ wrRet.kind = "wrapped" =>
               /\ n = wrMax
               /\ \A i \in 1..n : WrTemporaryFailure(wrCalls[i])
        /\ wrPc = "returned" => wrRet.kind # "none"

\* After a temporary failure fn returned an error whose Temporary() is false,
\* and withRetry returned that error with a retry to spare.
C28_Witness ==
    /\ prog = "retry"
    /\ wrPc = "returned"
    /\ wrMax = 3
    /\ wrCalls = <<"timeout", "lasting">>
    /\ wrRet = [kind |-> "err", err |-> "lasting"]

\* C29: for any sequence of Deposit, Withdraw and Close on an account created
\* by NewBankAccount, with any initial balance, Balance is never negative.
C29_BalanceNeverNegative ==
    prog = "bank" => ~F64Lt(baBalance, F64Num(0))

\* A withdrawal of more than the balance was refused on an account that was
\* created with a negative initial balance and then received a deposit.
C29_Witness ==
    /\ prog = "bank"
    /\ baBalance = F64Num(1)
    /\ baLast.op = "Withdraw"
    /\ baLast.err = "insufficient"
    /\ baLast.amount = F64Num(2)
    /\ baOps = 2

\* C30: once Close has been called the closed state is never left: every
\* later Deposit and Withdraw returns an error and leaves Balance unchanged;
\* and any Deposit or Withdraw that returns an error leaves the account
\* state unchanged.
C30_ClosedStaysClosedErrorsChangeNothing ==
    (prog = "bank" /\ baLast.op # "none") =>
        /\ baLast.closed => baClosed
        /\ (baLast.closed /\ baLast.op \in {"Deposit", "Withdraw"}) =>
               baLast.err # "nil" /\ baBalance = baLast.balance
        /\ baLast.err # "nil" =>
               baBalance = baLast.balance /\ baClosed = baLast.closed

\* A deposit on a closed account with money in it was refused.
C30_Witness ==
    /\ prog = "bank"
    /\ baClosed
    /\ baLast.closed
    /\ baLast.op = "Deposit"
    /\ baLast.amount = F64Num(2)
    /\ baLast.err = "closed"
    /\ baBalance = F64Num(3)

====
